---- MODULE Spec2Model ----
(***************************************************************************)
(* A model of treeagent: the Forest/Tree ensemble algebra (forest.go), the *)
(* incremental split trackers (algo.go), the tree Builder, the Judger, the *)
(* PPO objective, the sample streams and the loops of the drivers.         *)
(*                                                                         *)
(* float64 values are modelled by exact integers or rationals; the inputs  *)
(* are small integers so that every product and sum is exact. A feature    *)
(* value k of the Builder stands for the float64 1 + k*2^-52, so that the  *)
(* rounding of a midpoint of adjacent values is part of the model.         *)
(***************************************************************************)
EXTENDS Integers, Sequences, FiniteSets, TLC

VARIABLES
    forest,   \* the Forest: [Base, Trees, Weights]
    last,     \* the last forest operation: its name, arguments, the forest
              \* before it and what it returned
    fatal,    \* TRUE once a forest operation has panicked
    desc,     \* the Tree.Find descent in progress
    trk,      \* the splitTracker: its variant, its fields, the samples it
              \* was reset with and the number of MoveToLeft calls since
    bcfg,     \* the Builder: MaxDepth, Algorithm, FeatureFrac, MinLeaf,
              \* MinLeafFrac, ParamWhitelist; procs is GOMAXPROCS
    bdata,    \* the gradientSamples handed to build: features and gradient
    bpc,      \* build: "ready", "running", "done" or "panic"
    bstack,   \* the buildRecursive calls still to make, next one first
    bnodes,   \* the tree nodes built so far, by their path from the root
    bsearch,  \* the split search of the node being built: the two
              \* channels, the workers and the reducing loop
    bsigned,  \* the last SignTree call: its result and its argument as
              \* the call left it
    jdg,      \* the Judger.OptimalWeight call: the value forest, the samples,
              \* the tree, and the weight returned
    ppo,      \* PPO.Step: Epsilon, the samples, and the gradients computed so far
    wgr,      \* weightGradient: the gradient samples, the trees, the indices
              \* channel, the grad slice and the worker goroutines
    strm,     \* the sample pipeline: the rollout tapes, the RolloutSamples and
              \* Uint8Samples goroutines, their channels, and AllSamples
    vloop,    \* the value-function training loop of the driver: its flags, the
              \* value forest, the iteration, and every tree the forest has held
    drv,      \* the train_ppo driver: the training goroutine, the main goroutine,
              \* trainLock, the forest mutation or file write in progress
    gr        \* a call of experiments.GatherRollouts: its channels, its worker
              \* goroutines, the closing goroutine and the collecting loop

forestVars == <<forest, last, fatal>>
findVars == <<desc>>
trackerVars == <<trk>>
buildVars == <<bcfg, bdata, bpc, bstack, bnodes, bsearch, bsigned>>
judgerVars == <<jdg>>
ppoVars == <<ppo>>
weightGradVars == <<wgr>>
streamVars == <<strm>>
valueLoopVars == <<vloop>>
driverVars == <<drv>>
gatherVars == <<gr>>
vars == <<forestVars, findVars, trackerVars, buildVars,
         judgerVars,
         ppoVars,
         weightGradVars,
         streamVars,
         valueLoopVars,
         driverVars,
         gatherVars>>

\* what the operations of one component leave alone
NotForest == <<findVars, trackerVars, buildVars,
                   judgerVars,
                   ppoVars,
                   weightGradVars,
                   streamVars,
                   valueLoopVars,
                   driverVars,
                   gatherVars>>
NotFind == <<forestVars, trackerVars, buildVars,
                 judgerVars,
                 ppoVars,
                 weightGradVars,
                 streamVars,
                 valueLoopVars,
                 driverVars,
                 gatherVars>>
NotTracker == <<forestVars, findVars, buildVars,
                    judgerVars,
                    ppoVars,
                    weightGradVars,
                    streamVars,
                    valueLoopVars,
                    driverVars,
                    gatherVars>>
NotBuild == <<forestVars, findVars, trackerVars,
                  judgerVars,
                  ppoVars,
                  weightGradVars,
                  streamVars,
                  valueLoopVars,
                  driverVars,
                  gatherVars>>
NotJudger == <<forestVars, findVars, trackerVars, buildVars,
                   ppoVars,
                   weightGradVars,
                   streamVars,
                   valueLoopVars,
                   driverVars,
                   gatherVars>>
NotPPO == <<forestVars, findVars, trackerVars, buildVars, judgerVars,
                weightGradVars,
                streamVars,
                valueLoopVars,
                driverVars,
                gatherVars>>
NotWeightGrad == <<forestVars, findVars, trackerVars, buildVars, judgerVars, ppoVars,
                       streamVars,
                       valueLoopVars,
                       driverVars,
                       gatherVars>>
NotStream == <<forestVars, findVars, trackerVars, buildVars, judgerVars, ppoVars, weightGradVars,
                   valueLoopVars,
                   driverVars,
                   gatherVars>>
NotValueLoop == <<forestVars, findVars, trackerVars, buildVars, judgerVars, ppoVars, weightGradVars, streamVars,
                      driverVars,
                      gatherVars>>
NotDriver == <<forestVars, findVars, trackerVars, buildVars, judgerVars, ppoVars, weightGradVars, streamVars, valueLoopVars,
                   gatherVars>>
NotGather == <<forestVars, findVars, trackerVars, buildVars, judgerVars, ppoVars, weightGradVars, streamVars, valueLoopVars, driverVars>>

\* ---------------------------------------------------------------- bounds
\* largest number of trees a modelled forest grows to
MaxTrees == 3
\* largest weight kept in the model
MaxWeight == 2

\* ---------------------------------------------------------------- helpers
Abs(n) == IF n < 0 THEN -n ELSE n

Zeros(n) == [i \in 1..n |-> 0]

\* all sequences over S of length 0..n
SeqsUpTo(S, n) == UNION {[1..k -> S] : k \in 0..n}

\* ------------------------------------------------------------------ trees
\* A Tree node: a leaf holding Params, or a branch.
MkLeaf(p) == [Leaf |-> TRUE, Params |-> p]

MkBranch(feat, thr, lt, ge) ==
    [Leaf |-> FALSE, Feature |-> feat, Threshold |-> thr,
     LessThan |-> lt, GreaterEqual |-> ge]

\* the trees handed to Forest.Add in the model (feature indices are 1-based)
TreeA == MkLeaf(<<1, 0>>)
TreeB == MkBranch(1, 1, MkLeaf(<<1, -1>>), MkLeaf(<<0, 2>>))
TreeC == MkBranch(2, 2, MkBranch(1, 1, MkLeaf(<<2, 0>>), MkLeaf(<<0, 1>>)),
                        MkLeaf(<<-1, 1>>))
TreeD == MkBranch(1, 2, MkLeaf(<<0, 1>>),
                        MkBranch(2, 1, MkLeaf(<<1, 1>>), MkLeaf(<<-2, 0>>)))
TreeE == MkBranch(2, 1, MkLeaf(<<3, 0>>),
                        MkBranch(1, 2, MkBranch(2, 2, MkLeaf(<<0, 3>>),
                                                      MkLeaf(<<1, 2>>)),
                                       MkLeaf(<<2, 2>>)))
TreePool == {TreeA, TreeB, TreeC, TreeD, TreeE}
\* the trees the training loop adds to the modelled forest
ForestTrees == {TreeB, TreeC}

\* parameter dimension D and feature count F of the modelled trees
ParamDim == Len(TreeA.Params)
NumFeat == Cardinality({TreeB.Feature, TreeC.Feature})

\* the feature vectors the trees are evaluated on
FeatVals == {0, 1, 2}
FeatureVecs == [1..NumFeat -> FeatVals]

\* one level of Tree.FindFeatureSource: the child the descent continues in
FindChildGE(t, x) ==
    IF x[t.Feature] <= t.Threshold THEN t.LessThan ELSE t.GreaterEqual

FindChild(t, x) ==
    IF x[t.Feature] < t.Threshold THEN t.LessThan ELSE t.GreaterEqual

RECURSIVE FindFeatureSource(_, _)
FindFeatureSource(t, x) ==
    IF t.Leaf THEN t.Params ELSE FindFeatureSource(FindChild(t, x), x)

\* Tree.Find wraps the slice in a sliceFeatureSource
Find(t, x) == FindFeatureSource(t, x)

RECURSIVE Depth(_)
Depth(t) ==
    IF t.Leaf THEN 0
    ELSE LET l == Depth(t.LessThan)
             r == Depth(t.GreaterEqual)
         IN 1 + (IF l > r THEN l ELSE r)

\* ----------------------------------------------------------------- forest
NewForest(paramDim) ==
    [Base |-> Zeros(paramDim), Trees |-> <<>>, Weights |-> <<>>]

\* a forest restored by loadOrCreateForest may carry any Base
BaseChoices == {Zeros(ParamDim), <<1, -1>>}

\* Forest.Add
ForestAdd(f, tree, weight) ==
    [f EXCEPT !.Trees = Append(@, tree), !.Weights = Append(@, weight)]

\* Forest.Scale
ForestScaleFirstOnly(f, scale) ==
    [f EXCEPT !.Weights = [i \in 1..Len(@) |->
                              IF i = 1 THEN @[i] * scale ELSE @[i]]]

ForestScale(f, scale) ==
    [f EXCEPT !.Weights = [i \in 1..Len(@) |-> @[i] * scale]]

\* essentials.OrderedDelete(&slice, 0)
OrderedDeleteFirst(s) == SubSeq(s, 2, Len(s))

\* Forest.RemoveFirst
ForestRemoveFirstTreeOnly(f) ==
    [f EXCEPT !.Trees = OrderedDeleteFirst(@)]

ForestRemoveLast(f) ==
    [f EXCEPT !.Trees = SubSeq(@, 1, Len(@) - 1),
              !.Weights = SubSeq(@, 1, Len(@) - 1)]

ForestRemoveFirst(f) ==
    [f EXCEPT !.Trees = OrderedDeleteFirst(@),
              !.Weights = OrderedDeleteFirst(@)]

\* Forest.ApplyFeatureSource: the loop over the trees, params being the
\* accumulator; tree i adds Weights[i] * leaf[j] to params[j]
RECURSIVE ApplyLoopNoWeight(_, _, _, _)
ApplyLoopNoWeight(f, x, i, params) ==
    IF i > Len(f.Trees) THEN params
    ELSE LET leaf == FindFeatureSource(f.Trees[i], x)
         IN ApplyLoopNoWeight(f, x, i + 1,
                [j \in 1..Len(params) |->
                    IF j <= Len(leaf) THEN params[j] + leaf[j]
                    ELSE params[j]])

RECURSIVE ApplyLoop(_, _, _, _)
ApplyLoop(f, x, i, params) ==
    IF i > Len(f.Trees) THEN params
    ELSE LET w == f.Weights[i]
             leaf == FindFeatureSource(f.Trees[i], x)
         IN ApplyLoop(f, x, i + 1,
                [j \in 1..Len(params) |->
                    IF j <= Len(leaf) THEN params[j] + leaf[j] * w
                    ELSE params[j]])

\* params := append(ActionParams{}, f.Base...) is a fresh slice: the writes
\* of the loop never reach f.Base.  The result is the returned vector and
\* the forest as the call leaves it.
ApplyFeatureSourceAliased(f, x) ==
    LET params == ApplyLoop(f, x, 1, f.Base)
    IN [out |-> params, forest |-> [f EXCEPT !.Base = params]]

ApplyFeatureSource(f, x) ==
    LET params == ApplyLoop(f, x, 1, f.Base)
    IN [out |-> params, forest |-> f]

\* Forest.Apply
ForestApply(f, x) == ApplyFeatureSource(f, x)

\* add_weights(v, s): requires len(v) == len(trees), then
\* weights[i] += v[i] * s
AddWeightsOKLoose(f, v) == Len(v) >= Len(f.Trees)

AddWeightsOK(f, v) == Len(v) = Len(f.Trees)

ForestAddWeights(f, v, s) ==
    [f EXCEPT !.Weights = [i \in 1..Len(@) |-> @[i] + v[i] * s]]

\* prune_non_positive(): one pass over the pairs, keeping those whose
\* weight is positive; returns the forest and the number removed
RECURSIVE PruneLoopKeepZero(_, _, _, _)
PruneLoopKeepZero(f, i, trees, weights) ==
    IF i > Len(f.Weights)
    THEN [forest |-> [f EXCEPT !.Trees = trees, !.Weights = weights],
          removed |-> Len(f.Weights) - Len(weights)]
    ELSE IF f.Weights[i] >= 0
         THEN PruneLoopKeepZero(f, i + 1, Append(trees, f.Trees[i]),
                                Append(weights, f.Weights[i]))
         ELSE PruneLoopKeepZero(f, i + 1, trees, weights)

RECURSIVE PruneLoop(_, _, _, _)
PruneLoop(f, i, trees, weights) ==
    IF i > Len(f.Weights)
    THEN [forest |-> [f EXCEPT !.Trees = trees, !.Weights = weights],
          removed |-> Len(f.Weights) - Len(weights)]
    ELSE IF f.Weights[i] > 0
         THEN PruneLoop(f, i + 1, Append(trees, f.Trees[i]),
                        Append(weights, f.Weights[i]))
         ELSE PruneLoop(f, i + 1, trees, weights)

ForestPruneNonPositive(f) == PruneLoop(f, 1, <<>>, <<>>)

\* ------------------------------------------------- forest state machine
AddWeightChoices == {-1, 1, 2}
ScaleChoices == {-1, 0, 2}
TuneStepChoices == {1, 2}
GradChoices == {-1, 1}

\* the weight gradients handed to add_weights: every vector of the right
\* length, and one vector too short and one too long
GradVecs(f) ==
    [1..Len(f.Trees) -> GradChoices]
        \cup {[i \in 1..n |-> 1] : n \in {m \in 0..(MaxTrees + 1) :
                                            Abs(m - Len(f.Trees)) = 1}}

\* the weights the model follows: -1 .. MaxWeight
InBounds(f) ==
    \A i \in 1..Len(f.Weights) :
        f.Weights[i] >= -1 /\ f.Weights[i] <= MaxWeight

NoOp == [op |-> "none", pre |-> NewForest(ParamDim), x |-> <<>>,
         arg |-> 0, v |-> <<>>, out |-> <<>>, n |-> 0]

NoDesc == [tree |-> TreeA, x |-> <<>>, node |-> TreeA, steps |-> 0,
           done |-> FALSE, out |-> <<>>, active |-> FALSE]

\* the program is between two forest operations
Idle == ~fatal /\ last.op = "none"

Add(tree, weight) ==
    /\ Idle
    /\ Len(forest.Trees) < MaxTrees
    /\ forest' = ForestAdd(forest, tree, weight)
    /\ last' = [NoOp EXCEPT !.op = "Add", !.pre = forest, !.arg = weight]
    /\ UNCHANGED fatal
    /\ UNCHANGED NotForest

Scale(scale) ==
    /\ Idle
    /\ InBounds(ForestScale(forest, scale))
    /\ forest' = ForestScale(forest, scale)
    /\ last' = [NoOp EXCEPT !.op = "Scale", !.pre = forest, !.arg = scale]
    /\ UNCHANGED fatal
    /\ UNCHANGED NotForest

RemoveFirst ==
    /\ Idle
    /\ Len(forest.Trees) >= 1
    /\ forest' = ForestRemoveFirst(forest)
    /\ last' = [NoOp EXCEPT !.op = "RemoveFirst", !.pre = forest]
    /\ UNCHANGED fatal
    /\ UNCHANGED NotForest

Apply(x) ==
    /\ Idle
    /\ LET r == ForestApply(forest, x)
       IN /\ forest' = r.forest
          /\ last' = [NoOp EXCEPT !.op = "Apply", !.pre = forest, !.x = x,
                                  !.out = r.out]
    /\ UNCHANGED fatal
    /\ UNCHANGED NotForest

AddWeights(v, s) ==
    /\ Idle
    /\ IF AddWeightsOK(forest, v)
       THEN /\ InBounds(ForestAddWeights(forest, v, s))
            /\ forest' = ForestAddWeights(forest, v, s)
            /\ fatal' = FALSE
       ELSE /\ forest' = forest
            /\ fatal' = TRUE
    /\ last' = [NoOp EXCEPT !.op = "AddWeights", !.pre = forest, !.v = v,
                            !.arg = s]
    /\ UNCHANGED NotForest

PruneNonPositive ==
    /\ Idle
    /\ LET r == ForestPruneNonPositive(forest)
       IN /\ forest' = r.forest
          /\ last' = [NoOp EXCEPT !.op = "Prune", !.pre = forest,
                                  !.n = r.removed]
    /\ UNCHANGED fatal
    /\ UNCHANGED NotForest

\* the caller takes the result of the operation; the record of the call is
\* dropped
Return ==
    /\ ~fatal
    /\ last.op # "none"
    /\ last' = NoOp
    /\ UNCHANGED <<forest, fatal>>
    /\ UNCHANGED NotForest

ForestNext ==
    \/ \E t \in ForestTrees, w \in AddWeightChoices : Add(t, w)
    \/ \E s \in ScaleChoices : Scale(s)
    \/ RemoveFirst
    \/ \E x \in FeatureVecs : Apply(x)
    \/ \E v \in GradVecs(forest), s \in TuneStepChoices : AddWeights(v, s)
    \/ PruneNonPositive
    \/ Return

\* --------------------------------------------------- Tree.Find, stepwise
\* One call of Tree.Find: desc.node is the receiver of the innermost
\* FindFeatureSource call, desc.steps the number of recursive calls made.
FindStart(t, x) ==
    /\ ~desc.active \/ desc.done
    /\ desc' = [tree |-> t, x |-> x, node |-> t, steps |-> 0,
                done |-> FALSE, out |-> <<>>, active |-> TRUE]
    /\ UNCHANGED NotFind

FindDescend ==
    /\ desc.active /\ ~desc.done
    /\ ~desc.node.Leaf
    /\ desc' = [desc EXCEPT !.node = FindChild(desc.node, desc.x),
                            !.steps = @ + 1]
    /\ UNCHANGED NotFind

FindReturn ==
    /\ desc.active /\ ~desc.done
    /\ desc.node.Leaf
    /\ desc' = [desc EXCEPT !.done = TRUE, !.out = desc.node.Params]
    /\ UNCHANGED NotFind

FindNext ==
    \/ \E t \in TreePool, x \in FeatureVecs : FindStart(t, x)
    \/ FindDescend
    \/ FindReturn

\* ---------------------------------------------------------- float64
\* A float64 result: a rational num/den (den > 0), NaN or an infinity.
FNum(n, d) == [kind |-> "num", num |-> n, den |-> d]
FInt(n) == FNum(n, 1)
FNaN == [kind |-> "nan", num |-> 0, den |-> 1]
FInf(sign) == [kind |-> "inf", num |-> sign, den |-> 1]

\* a / float64(n) for a count n >= 0: 0/0 is NaN, x/0 an infinity
FDivCount(a, n) ==
    IF a.kind # "num" THEN a
    ELSE IF n = 0
         THEN (IF a.num = 0 THEN FNaN
               ELSE FInf(IF a.num > 0 THEN 1 ELSE -1))
         ELSE FNum(a.num, a.den * n)

FAdd(a, b) ==
    IF a.kind = "nan" \/ b.kind = "nan" THEN FNaN
    ELSE IF a.kind = "inf" /\ b.kind = "inf"
         THEN (IF a.num = b.num THEN a ELSE FNaN)
    ELSE IF a.kind = "inf" THEN a
    ELSE IF b.kind = "inf" THEN b
    ELSE FNum(a.num * b.den + b.num * a.den, a.den * b.den)

FNeg(a) == IF a.kind = "nan" THEN a ELSE [a EXCEPT !.num = -@]

FSub(a, b) == FAdd(a, FNeg(b))

FMulInt(a, n) ==
    IF a.kind = "num" THEN FNum(a.num * n, a.den)
    ELSE IF a.kind = "inf" /\ n # 0
         THEN FInf(IF n > 0 THEN a.num ELSE -a.num)
    ELSE FNaN

\* math.Sqrt, kept symbolic: the radicand
FSqrt(a) == [kind |-> "sqrt", of |-> a]

\* -(sqrt(a) + sqrt(b)), kept symbolic
FNegSqrtSum(a, b) == [kind |-> "negsqrtsum", l |-> a, r |-> b]

\* == on float64: NaN equals nothing
RECURSIVE FEq(_, _)
FEq(a, b) ==
    IF a.kind # b.kind THEN FALSE
    ELSE IF a.kind = "nan" THEN FALSE
    ELSE IF a.kind = "inf" THEN a.num = b.num
    ELSE IF a.kind = "negsqrtsum" THEN FEq(a.l, b.l) /\ FEq(a.r, b.r)
    ELSE a.num * b.den = b.num * a.den

\* --------------------------------------------------------------- smallVec
Dot(a, b) ==
    LET RECURSIVE acc(_)
        acc(i) == IF i = 0 THEN 0 ELSE a[i] * b[i] + acc(i - 1)
    IN acc(Len(a))

VecAdd(a, b) == [i \in 1..Len(a) |-> a[i] + b[i]]

VecSub(a, b) == [i \in 1..Len(a) |-> a[i] - b[i]]

AbsSum(a) ==
    LET RECURSIVE acc(_)
        acc(i) == IF i = 0 THEN 0 ELSE Abs(a[i]) + acc(i - 1)
    IN acc(Len(a))

\* sumGradients: a copy of the first gradient, the others added to it
RECURSIVE SumFrom(_, _, _)
SumFrom(grads, i, sum) ==
    IF i > Len(grads) THEN sum
    ELSE SumFrom(grads, i + 1, VecAdd(sum, grads[i]))

SumGradients(grads) == SumFrom(grads, 2, grads[1])

\* ------------------------------------------------------- split trackers
\* largest number of samples handed to a tracker
MaxSamples == 3

TrackerAlgs == {"sum", "mean", "mse", "balancedsum", "stddev", "sign"}

\* the gradients of the samples
GradPool == {<<1, 2>>, <<3, 2>>, <<5, 1>>, <<-2, 0>>}

SampleSeqs == UNION {[1..n -> GradPool] : n \in 1..MaxSamples}

HasCounts(alg) == alg \in {"mean", "mse", "balancedsum", "stddev"}
HasSquares(alg) == alg \in {"mse", "stddev"}

RECURSIVE SquaresFrom(_, _, _)
SquaresFrom(grads, i, sum) ==
    IF i > Len(grads) THEN sum
    ELSE SquaresFrom(grads, i + 1, sum + Dot(grads[i], grads[i]))

NoTracker ==
    [alg |-> "none", samples |-> <<>>, moved |-> 0,
     leftSum |-> <<>>, rightSum |-> <<>>, leftCount |-> 0, rightCount |-> 0,
     leftSquares |-> 0, rightSquares |-> 0]

\* Reset(rightSamples) of the variant alg
TrackerAfterReset(alg, samples) ==
    LET rightSum == SumGradients(samples)
    IN [alg |-> alg, samples |-> samples, moved |-> 0,
        leftSum |-> Zeros(Len(rightSum)), rightSum |-> rightSum,
        leftCount |-> 0,
        rightCount |-> IF HasCounts(alg) THEN Len(samples) ELSE 0,
        leftSquares |-> 0,
        rightSquares |-> IF HasSquares(alg)
                         THEN SquaresFrom(samples, 1, 0) ELSE 0]

\* MoveToLeft(sample) of the variant t.alg
TrackerAfterMoveKeepRight(t, g) ==
    [t EXCEPT !.moved = @ + 1,
              !.leftSum = VecAdd(@, g),
              !.leftCount = IF HasCounts(t.alg) THEN @ + 1 ELSE @,
              !.rightCount = IF HasCounts(t.alg) THEN @ - 1 ELSE @,
              !.leftSquares = IF HasSquares(t.alg) THEN @ + Dot(g, g) ELSE @,
              !.rightSquares = IF HasSquares(t.alg) THEN @ - Dot(g, g) ELSE @]

TrackerAfterMove(t, g) ==
    [t EXCEPT !.moved = @ + 1,
              !.rightSum = VecSub(@, g),
              !.leftSum = VecAdd(@, g),
              !.leftCount = IF HasCounts(t.alg) THEN @ + 1 ELSE @,
              !.rightCount = IF HasCounts(t.alg) THEN @ - 1 ELSE @,
              !.leftSquares = IF HasSquares(t.alg) THEN @ + Dot(g, g) ELSE @,
              !.rightSquares = IF HasSquares(t.alg) THEN @ - Dot(g, g) ELSE @]

\* sumTracker.Quality
SumQuality(t) == Dot(t.leftSum, t.leftSum) + Dot(t.rightSum, t.rightSum)

\* meanTracker.Quality: each side's dot product over its count, no side
\* skipped
MeanQuality(t) ==
    FAdd(FAdd(FInt(0), FDivCount(FInt(Dot(t.leftSum, t.leftSum)),
                                 t.leftCount)),
         FDivCount(FInt(Dot(t.rightSum, t.rightSum)), t.rightCount))

\* mseTracker.leftRightErrors: a side with count 0 is skipped
SideError(sqSum, sum, n) ==
    IF n = 0 THEN FInt(0)
    ELSE FSub(FInt(sqSum), FDivCount(FInt(Dot(sum, sum)), n))

LeftError(t) == SideError(t.leftSquares, t.leftSum, t.leftCount)
RightError(t) == SideError(t.rightSquares, t.rightSum, t.rightCount)

\* mseTracker.Quality
MSEQuality(t) == FNeg(FAdd(LeftError(t), RightError(t)))

\* balancedSumTracker.Quality
BalancedSumQuality(t) == SumQuality(t) * (t.leftCount * t.rightCount)

\* stddevTracker.Quality
StddevQuality(t) ==
    FNegSqrtSum(FMulInt(LeftError(t), t.leftCount),
                FMulInt(RightError(t), t.rightCount))

\* signTracker.Quality
SignQuality(t) == AbsSum(t.leftSum) + AbsSum(t.rightSum)

\* Quality() of the variant t.alg
Quality(t) ==
    CASE t.alg = "sum" -> FInt(SumQuality(t))
      [] t.alg = "mean" -> MeanQuality(t)
      [] t.alg = "mse" -> MSEQuality(t)
      [] t.alg = "balancedsum" -> FInt(BalancedSumQuality(t))
      [] t.alg = "stddev" -> StddevQuality(t)
      [] t.alg = "sign" -> FInt(SignQuality(t))

\* optimalSplit makes a new tracker and resets it once
TrackerReset(alg, samples) ==
    /\ trk.alg = "none"
    /\ trk' = TrackerAfterReset(alg, samples)
    /\ UNCHANGED NotTracker

\* the split search moves the samples left in order
TrackerMoveToLeft ==
    /\ trk.alg # "none"
    /\ trk.moved < Len(trk.samples)
    /\ trk' = TrackerAfterMove(trk, trk.samples[trk.moved + 1])
    /\ UNCHANGED NotTracker

\* optimalSplit returns once every sample has been moved
TrackerDrop ==
    /\ trk.alg # "none"
    /\ trk.moved = Len(trk.samples)
    /\ trk' = NoTracker
    /\ UNCHANGED NotTracker

TrackerNext ==
    \/ \E alg \in TrackerAlgs, samples \in SampleSeqs :
          TrackerReset(alg, samples)
    \/ TrackerMoveToLeft
    \/ TrackerDrop

\* ---------------------------------------------------------------- Builder
\* largest Builder.MaxDepth and largest number of samples of a build
MaxBuildDepth == 2
MaxData == 4
\* largest runtime.GOMAXPROCS(0) of a split search
MaxProcs == 3

Algorithms == {"sum", "mean", "mse", "balancedsum", "stddev", "sign", "abs"}

\* TreeAlgorithm.splitTracker: Sign and Abs share the signTracker
SplitTracker(alg) == IF alg = "abs" THEN "sign" ELSE alg

Max(a, b) == IF a > b THEN a ELSE b

\* a fraction such as MinLeafFrac or FeatureFrac
Frac(n, d) == [num |-> n, den |-> d]

\* sqrt(A) + sqrt(B) < sqrt(C) + sqrt(D) for integers >= 0
SqrtSumLess(A, B, C, D) ==
    LET p == A + B - C - D
        X == C * D
        Y == A * B
        q == p * p - 4 * X - 4 * Y
    IN IF p < 0
       THEN \/ X >= Y
            \/ q > 0
            \/ q = 0 /\ X * Y > 0
            \/ q < 0 /\ q * q < 64 * X * Y
       ELSE X > Y /\ -q > 0 /\ q * q > 64 * X * Y

\* a radicand of stddevTracker.Quality, count * error = count * squares -
\* |sum|^2, is a whole number
Radicand(a) == a.num \div a.den

\* > on float64 qualities; a comparison with NaN is false
FGreater(a, b) ==
    IF a.kind = "negsqrtsum" /\ b.kind = "negsqrtsum"
    THEN SqrtSumLess(Radicand(a.l), Radicand(a.r),
                     Radicand(b.l), Radicand(b.r))
    ELSE IF a.kind = "nan" \/ b.kind = "nan" THEN FALSE
    ELSE IF a.kind = "inf" THEN a.num > 0 /\ ~(b.kind = "inf" /\ b.num > 0)
    ELSE IF b.kind = "inf" THEN b.num < 0
    ELSE a.num * b.den > b.num * a.den

\* splitInfo; a nil *splitInfo is NilSplit
NilSplit ==
    [nil |-> TRUE, Feature |-> 0, Threshold |-> 0, Quality |-> FInt(0),
     LeftSamples |-> <<>>, RightSamples |-> <<>>]

\* betterSplit
BetterSplit(s1, s2) ==
    IF s1.nil THEN s2
    ELSE IF s2.nil THEN s1
    ELSE IF FGreater(s1.Quality, s2.Quality) THEN s1
    ELSE s2

\* sortByFeature: the sample indices in ascending order of the feature; the
\* order among equal values does not reach the result of a split, which
\* only cuts between distinct values
SortByFeature(samples, idxs, feature) ==
    LET val(i) == samples[i].feat[feature]
        insert(sorted, x) ==
            LET pos == Cardinality({k \in 1..Len(sorted) :
                                       val(sorted[k]) <= val(x)})
            IN SubSeq(sorted, 1, pos) \o <<x>>
                   \o SubSeq(sorted, pos + 1, Len(sorted))
        RECURSIVE sortN(_)
        sortN(k) == IF k = 0 THEN <<>> ELSE insert(sortN(k - 1), idxs[k])
    IN sortN(Len(idxs))

\* minLeaf := MaxInt(b.MinLeaf, int(b.MinLeafFrac*float64(len(samples))))
MinLeafOf(cfg, n) ==
    Max(cfg.MinLeaf, (cfg.MinLeafFrac.num * n) \div cfg.MinLeafFrac.den)

\* featureVals[i] > lastValue: the walk has reached a new feature value
NewValueOrSame(val, lastValue) == val >= lastValue

NewValue(val, lastValue) == val > lastValue

\* (featureVals[i] + lastValue) / 2 in float64. A feature value k of the
\* model is the float64 1 + k * 2^-52: the sum of two of them lies in
\* [2, 4), where the float64 are 2^-51 apart, so an odd k1 + k2 is rounded
\* to the neighbour with the even mantissa before the exact division by 2
Midpoint(a, b) ==
    LET s == a + b
    IN IF s % 2 = 0 THEN s \div 2
       ELSE IF ((s - 1) \div 2) % 2 = 0 THEN (s - 1) \div 2
       ELSE (s + 1) \div 2

\* Builder.optimalSplit
OptimalSplit(cfg, samples, idxs, feature) ==
    LET sorted == SortByFeature(samples, idxs, feature)
        n == Len(sorted)
        vals == [i \in 1..n |-> samples[sorted[i]].feat[feature]]
        grads == [i \in 1..n |-> samples[sorted[i]].grad]
        minLeaf == MinLeafOf(cfg, n)
        RECURSIVE loop(_, _, _, _)
        loop(i, tracker, lastValue, bestSplit) ==
            IF i > n THEN bestSplit
            ELSE LET newSplit ==
                         [nil |-> FALSE, Feature |-> feature,
                          Threshold |-> Midpoint(vals[i], lastValue),
                          Quality |-> Quality(tracker),
                          LeftSamples |-> SubSeq(sorted, 1, i - 1),
                          RightSamples |-> SubSeq(sorted, i, n)]
                     allowed == i - 1 >= minLeaf /\ n - (i - 1) >= minLeaf
                 IN IF NewValue(vals[i], lastValue)
                    THEN loop(i + 1, TrackerAfterMove(tracker, grads[i]),
                              vals[i],
                              IF allowed THEN BetterSplit(bestSplit, newSplit)
                              ELSE bestSplit)
                    ELSE loop(i + 1, TrackerAfterMove(tracker, grads[i]),
                              lastValue, bestSplit)
    IN loop(1, TrackerAfterReset(SplitTracker(cfg.Algorithm), grads),
            vals[1], NilSplit)

\* the caller's slice after sortByFeature: sorted is a slice made by the
\* call, and VoodooSort permutes vals and sorted, never samples
SortByFeatureInputSorted(samples, idxs, feature) ==
    SortByFeature(samples, idxs, feature)

SortByFeatureInput(samples, idxs, feature) == idxs

\* the first sample's gradient after sumGradients: the sum starts as a
\* Copy of it, and Add writes to the copy
SumGradientsFirst(grads) == grads[1]

\* what optimalSplit leaves behind: the caller's slice, and the samples
\* with their gradients. Reset hands sorted to sumGradients; MoveToLeft and
\* Quality write to the tracker's own sums only
OptimalSplitEffect(cfg, samples, idxs, feature) ==
    LET sorted == SortByFeature(samples, idxs, feature)
        grads == [i \in 1..Len(sorted) |-> samples[sorted[i]].grad]
    IN [data |-> SortByFeatureInput(samples, idxs, feature),
        samples |-> [samples EXCEPT
                        ![sorted[1]].grad = SumGradientsFirst(grads)]]

\* useFeatures of featuresToTry
UseFeatures(cfg, numFeatures) ==
    IF cfg.FeatureFrac.num = 0 THEN numFeatures
    ELSE (cfg.FeatureFrac.num * numFeatures + cfg.FeatureFrac.den - 1)
             \div cfg.FeatureFrac.den

FeatureFracOK(cfg) ==
    \/ cfg.FeatureFrac.num = 0
    \/ cfg.FeatureFrac.num >= 0 /\ cfg.FeatureFrac.num <= cfg.FeatureFrac.den

\* Builder.featuresToTry: the contents the closed feature channel may have;
\* rand.Perm picks the features when only some are tried
FeaturesToTry(cfg, numFeatures) ==
    LET use == UseFeatures(cfg, numFeatures)
    IN IF use # numFeatures
       THEN {q \in [1..use -> 1..numFeatures] :
                \A i, j \in 1..use : i # j => q[i] # q[j]}
       ELSE {[i \in 1..numFeatures |-> i]}

\* smallVec.Mul: the componentwise product, in place
Mul(v, m) == [j \in 1..Len(v) |-> v[j] * m[j]]

\* the mask of maskGradients: 1 at the whitelisted indices, 0 elsewhere
MaskOfAll(cfg, dim) == [j \in 1..dim |-> 1]

MaskOf(cfg, dim) ==
    [j \in 1..dim |->
        IF \E k \in 1..Len(cfg.ParamWhitelist.idx) :
               cfg.ParamWhitelist.idx[k] = j
        THEN 1 ELSE 0]

WhitelistInRange(cfg, dim) ==
    \A k \in 1..Len(cfg.ParamWhitelist.idx) :
        cfg.ParamWhitelist.idx[k] \in 1..dim

\* Builder.maskGradients
MaskGradients(cfg, samples) ==
    IF Len(samples) = 0 \/ cfg.ParamWhitelist.nil THEN samples
    ELSE LET mask == MaskOf(cfg, Len(samples[1].grad))
         IN [i \in 1..Len(samples) |->
                [samples[i] EXCEPT !.grad = Mul(@, mask)]]

Sign(n) == IF n > 0 THEN 1 ELSE IF n < 0 THEN -1 ELSE 0

\* smallVec.Signs
Signs(v) == [j \in 1..Len(v) |-> FInt(Sign(v[j].num))]

\* smallVec.Copy
Copy(v) == [j \in 1..Len(v) |-> v[j]]

\* SignTree: the result, and the argument as the call leaves it; Signs
\* works in place, on a copy of the leaf's Params
RECURSIVE SignTreeNoCopy(_)
SignTreeNoCopy(t) ==
    IF t.Leaf
    THEN [out |-> MkLeaf(Signs(t.Params)), arg |-> MkLeaf(Signs(t.Params))]
    ELSE LET lt == SignTreeNoCopy(t.LessThan)
             ge == SignTreeNoCopy(t.GreaterEqual)
         IN [out |-> MkBranch(t.Feature, t.Threshold, lt.out, ge.out),
             arg |-> MkBranch(t.Feature, t.Threshold, lt.arg, ge.arg)]

RECURSIVE SignTree(_)
SignTree(t) ==
    IF t.Leaf
    THEN [out |-> MkLeaf(Signs(Copy(t.Params))), arg |-> t]
    ELSE LET lt == SignTree(t.LessThan)
             ge == SignTree(t.GreaterEqual)
         IN [out |-> MkBranch(t.Feature, t.Threshold, lt.out, ge.out),
             arg |-> MkBranch(t.Feature, t.Threshold, lt.arg, ge.arg)]

\* TreeAlgorithm.leafParams
LeafParams(alg, leafGrads, numAll) ==
    LET sum == SumGradients(leafGrads)
        fsum == [j \in 1..Len(sum) |-> FInt(sum[j])]
    IN IF alg = "sign" THEN Signs(fsum)
       ELSE IF alg \in {"sum", "balancedsum"}
            THEN [j \in 1..Len(sum) |-> FDivCount(fsum[j], numAll)]
       ELSE [j \in 1..Len(sum) |-> FDivCount(fsum[j], Len(leafGrads))]

\* Tree.scaleParams(1 / float64(n)) on a leaf
ScaleParams(params, n) == [j \in 1..Len(params) |-> FDivCount(params[j], n)]

\* the leaf case of Builder.buildRecursive
BuildLeaf(cfg, samples, idxs) ==
    LET grads == [i \in 1..Len(idxs) |-> samples[idxs[i]].grad]
        params == LeafParams(cfg.Algorithm, grads, Len(samples))
    IN IF cfg.Algorithm \in {"sum", "balancedsum"}
       THEN ScaleParams(params, Len(idxs))
       ELSE IF cfg.Algorithm = "sign" THEN SignTree(MkLeaf(params)).out.Params
       ELSE params

\* a node of the tree under construction; data is the sample list the
\* node was built from
LeafNode(params, idxs) ==
    [Leaf |-> TRUE, Params |-> params, Feature |-> 0, Threshold |-> 0,
     data |-> idxs]

BranchNode(split, idxs) ==
    [Leaf |-> FALSE, Params |-> <<>>, Feature |-> split.Feature,
     Threshold |-> split.Threshold, data |-> idxs]

\* a call of buildRecursive that is still to be made
FrameKeepDepth(path, idxs, depth) ==
    [path |-> path, data |-> idxs, depth |-> depth + 1]

Frame(path, idxs, depth) == [path |-> path, data |-> idxs, depth |-> depth]

\* the split search of one node: the two channels, the workers and the
\* reducing loop; tried, sent and reduced record what was put on
\* featureChan, which worker sent the result of which feature, and how many
\* results the reducing loop has taken
NoSearch ==
    [active |-> FALSE, path |-> <<>>, data |-> <<>>, depth |-> 0,
     tried |-> <<>>, featureChan |-> <<>>, splitChan |-> <<>>,
     closed |-> FALSE,
     wpc |-> <<>>, wfeat |-> <<>>, bestSplit |-> NilSplit,
     sent |-> <<>>, reduced |-> 0]

NoSigned == [called |-> FALSE, out |-> MkLeaf(<<>>), arg |-> MkLeaf(<<>>)]

\* Builder.build: mask the gradients, then buildRecursive on all the data
BuildCall ==
    /\ bpc = "ready"
    /\ IF ~bcfg.ParamWhitelist.nil /\ Len(bdata) > 0
          /\ ~WhitelistInRange(bcfg, Len(bdata[1].grad))
       THEN /\ bpc' = "panic"
            /\ UNCHANGED <<bdata, bstack>>
       ELSE /\ bpc' = "running"
            /\ bdata' = MaskGradients(bcfg, bdata)
            /\ bstack' = <<Frame(<<>>, [i \in 1..Len(bdata) |-> i],
                                 bcfg.MaxDepth)>>
    /\ UNCHANGED <<bcfg, bnodes, bsearch>>
    /\ UNCHANGED bsigned
    /\ UNCHANGED NotBuild

\* buildRecursive is entered: it panics on no data, returns a leaf at depth
\* 0 or on a single sample, and otherwise starts the workers
NodeEnter ==
    /\ bpc = "running"
    /\ ~bsearch.active
    /\ bstack # <<>>
    /\ LET fr == Head(bstack)
       IN IF Len(fr.data) = 0
          THEN /\ bpc' = "panic"
               /\ UNCHANGED <<bstack, bnodes, bsearch>>
          ELSE IF fr.depth = 0 \/ Len(fr.data) = 1
          THEN /\ bnodes' = (fr.path :> LeafNode(BuildLeaf(bcfg, bdata,
                                                   fr.data), fr.data))
                                @@ bnodes
               /\ bstack' = Tail(bstack)
               /\ UNCHANGED <<bpc, bsearch>>
          ELSE IF ~FeatureFracOK(bcfg)
          THEN /\ bpc' = "panic"
               /\ UNCHANGED <<bstack, bnodes, bsearch>>
          ELSE /\ \E chan \in FeaturesToTry(bcfg, NumFeat) :
                     bsearch' = [NoSearch EXCEPT
                                    !.active = TRUE, !.path = fr.path,
                                    !.data = fr.data, !.depth = fr.depth,
                                    !.featureChan = chan, !.tried = chan,
                                    !.wpc = [w \in 1..bcfg.procs |-> "recv"],
                                    !.wfeat = [w \in 1..bcfg.procs |-> 0]]
               /\ bstack' = Tail(bstack)
               /\ UNCHANGED <<bpc, bnodes>>
    /\ UNCHANGED <<bcfg, bdata>>
    /\ UNCHANGED bsigned
    /\ UNCHANGED NotBuild

\* a worker receives the next feature from featureChan
WorkerRecv(w) ==
    /\ bsearch.active
    /\ bsearch.wpc[w] = "recv"
    /\ bsearch.featureChan # <<>>
    /\ bsearch' = [bsearch EXCEPT !.featureChan = Tail(@),
                                  !.wfeat[w] = Head(bsearch.featureChan),
                                  !.wpc[w] = "send"]
    /\ UNCHANGED <<bcfg, bdata, bpc, bstack, bnodes>>
    /\ UNCHANGED bsigned
    /\ UNCHANGED NotBuild

\* a worker calls optimalSplit(data, feature) and sends the result on
\* splitChan, whose capacity is numFeatures
WorkerSend(w) ==
    /\ bsearch.active
    /\ bsearch.wpc[w] = "send"
    /\ Len(bsearch.splitChan) < NumFeat
    /\ bsearch' = [bsearch EXCEPT
                      !.splitChan = Append(@, OptimalSplit(bcfg, bdata,
                                              bsearch.data,
                                              bsearch.wfeat[w])),
                      !.data = OptimalSplitEffect(bcfg, bdata, bsearch.data,
                                                  bsearch.wfeat[w]).data,
                      !.sent = Append(@, <<w, bsearch.wfeat[w]>>),
                      !.wpc[w] = "recv"]
    /\ bdata' = OptimalSplitEffect(bcfg, bdata, bsearch.data,
                                   bsearch.wfeat[w]).samples
    /\ UNCHANGED <<bcfg, bpc, bstack, bnodes>>
    /\ UNCHANGED bsigned
    /\ UNCHANGED NotBuild

\* featureChan is closed and drained: the worker calls wg.Done()
WorkerExit(w) ==
    /\ bsearch.active
    /\ bsearch.wpc[w] = "recv"
    /\ bsearch.featureChan = <<>>
    /\ bsearch' = [bsearch EXCEPT !.wpc[w] = "done"]
    /\ UNCHANGED <<bcfg, bdata, bpc, bstack, bnodes>>
    /\ UNCHANGED bsigned
    /\ UNCHANGED NotBuild

\* wg.Wait() returns and splitChan is closed
CloseSplitChanNoWait ==
    /\ bsearch.active
    /\ ~bsearch.closed
    /\ bsearch' = [bsearch EXCEPT !.closed = TRUE]
    /\ UNCHANGED <<bcfg, bdata, bpc, bstack, bnodes>>
    /\ UNCHANGED bsigned
    /\ UNCHANGED NotBuild

CloseSplitChan ==
    /\ bsearch.active
    /\ ~bsearch.closed
    /\ \A w \in 1..bcfg.procs : bsearch.wpc[w] = "done"
    /\ bsearch' = [bsearch EXCEPT !.closed = TRUE]
    /\ UNCHANGED <<bcfg, bdata, bpc, bstack, bnodes>>
    /\ UNCHANGED bsigned
    /\ UNCHANGED NotBuild

\* the reducing loop takes one split from splitChan
ReduceRecv ==
    /\ bsearch.active
    /\ bsearch.splitChan # <<>>
    /\ bsearch' = [bsearch EXCEPT
                      !.splitChan = Tail(@),
                      !.reduced = @ + 1,
                      !.bestSplit = BetterSplit(@, Head(bsearch.splitChan))]
    /\ UNCHANGED <<bcfg, bdata, bpc, bstack, bnodes>>
    /\ UNCHANGED bsigned
    /\ UNCHANGED NotBuild

\* splitChan is closed and drained: without a split the node is the leaf
\* buildRecursive(data, allData, 0) returns; with one it is a branch whose
\* children are built next, LessThan first
NodeFinish ==
    /\ bsearch.active
    /\ bsearch.closed
    /\ bsearch.splitChan = <<>>
    /\ IF bsearch.bestSplit.nil
       THEN /\ bnodes' = (bsearch.path :>
                            LeafNode(BuildLeaf(bcfg, bdata, bsearch.data),
                                     bsearch.data)) @@ bnodes
            /\ UNCHANGED bstack
       ELSE /\ bnodes' = (bsearch.path :>
                            BranchNode(bsearch.bestSplit, bsearch.data))
                             @@ bnodes
            /\ bstack' = <<Frame(Append(bsearch.path, 0),
                                 bsearch.bestSplit.LeftSamples,
                                 bsearch.depth - 1),
                           Frame(Append(bsearch.path, 1),
                                 bsearch.bestSplit.RightSamples,
                                 bsearch.depth - 1)>> \o bstack
    /\ bsearch' = NoSearch
    /\ UNCHANGED <<bcfg, bdata, bpc>>
    /\ UNCHANGED bsigned
    /\ UNCHANGED NotBuild

\* the outermost buildRecursive returns the tree
BuildReturn ==
    /\ bpc = "running"
    /\ ~bsearch.active
    /\ bstack = <<>>
    /\ bpc' = "done"
    /\ UNCHANGED <<bcfg, bdata, bstack, bnodes, bsearch>>
    /\ UNCHANGED bsigned
    /\ UNCHANGED NotBuild

\* the tree below the node at path, as build returns it
RECURSIVE BuiltTree(_, _)
BuiltTree(nodes, path) ==
    LET nd == nodes[path]
    IN IF nd.Leaf THEN MkLeaf(nd.Params)
       ELSE MkBranch(nd.Feature, nd.Threshold,
                     BuiltTree(nodes, Append(path, 0)),
                     BuiltTree(nodes, Append(path, 1)))

\* SignTree is called on the tree build returned
SignTreeCall ==
    /\ bpc = "done"
    /\ ~bsigned.called
    /\ bsigned' = [called |-> TRUE,
                   out |-> SignTree(BuiltTree(bnodes, <<>>)).out,
                   arg |-> SignTree(BuiltTree(bnodes, <<>>)).arg]
    /\ UNCHANGED <<bcfg, bdata, bpc, bstack, bnodes, bsearch>>
    /\ UNCHANGED NotBuild

BuildNext ==
    \/ SignTreeCall
    \/ BuildCall
    \/ NodeEnter
    \/ \E w \in 1..bcfg.procs : WorkerRecv(w)
    \/ \E w \in 1..bcfg.procs : WorkerSend(w)
    \/ \E w \in 1..bcfg.procs : WorkerExit(w)
    \/ CloseSplitChan
    \/ ReduceRecv
    \/ NodeFinish
    \/ BuildReturn

\* the training samples: features and gradient; the last sample has a
\* feature value next to the values 0 and 2 of the others
SamplePool ==
    <<[feat |-> <<0, 0>>, grad |-> <<1, 2>>],
      [feat |-> <<2, 2>>, grad |-> <<3, 2>>],
      [feat |-> <<4, 0>>, grad |-> <<5, 1>>],
      [feat |-> <<2, 0>>, grad |-> <<-2, 0>>],
      [feat |-> <<0, 0>>, grad |-> <<1, -1>>],
      [feat |-> <<1, 0>>, grad |-> <<-3, 1>>]>>

\* the sample lists of a build: the pool samples of a subset, in pool order
RECURSIVE PickFrom(_, _)
PickFrom(S, i) ==
    IF i > Len(SamplePool) THEN <<>>
    ELSE (IF i \in S THEN <<SamplePool[i]>> ELSE <<>>) \o PickFrom(S, i + 1)

DataSets ==
    {PickFrom(S, 1) : S \in {T \in SUBSET (1..Len(SamplePool)) :
                                T # {} /\ Cardinality(T) <= MaxData}}

NoWhitelist == [nil |-> TRUE, idx |-> <<>>]
Whitelist(idx) == [nil |-> FALSE, idx |-> idx]

DefaultBuilder ==
    [MaxDepth |-> MaxBuildDepth, Algorithm |-> "mse",
     FeatureFrac |-> Frac(0, 1), MinLeaf |-> 1, MinLeafFrac |-> Frac(0, 1),
     ParamWhitelist |-> NoWhitelist, procs |-> 1]

\* the Builders of the model: each varies a few fields of the default one
BuildersByAlgorithm ==
    {[DefaultBuilder EXCEPT !.Algorithm = a, !.MaxDepth = d] :
        a \in Algorithms, d \in 0..MaxBuildDepth}

BuildersByMinLeaf ==
    {[DefaultBuilder EXCEPT !.MinLeaf = m, !.MinLeafFrac = f,
                            !.Algorithm = a] :
        m \in {0, 1, 2}, f \in {Frac(0, 1), Frac(1, 4), Frac(1, 2)},
        a \in {"sum", "mse"}}

BuildersByWhitelist ==
    {[DefaultBuilder EXCEPT !.ParamWhitelist = Whitelist(wl),
                            !.Algorithm = a] :
        wl \in {<<1>>, <<2>>, <<2, 1>>, <<>>}, a \in {"sum", "mse", "sign"}}

BuildersByFeatureFrac ==
    {[DefaultBuilder EXCEPT !.FeatureFrac = f, !.Algorithm = a] :
        f \in {Frac(1, 2), Frac(1, 1)}, a \in {"sum", "mse"}}

BuildersByProcs ==
    {[DefaultBuilder EXCEPT !.procs = 2, !.Algorithm = a] :
        a \in {"sum", "mse"}}

Builders ==
    BuildersByAlgorithm \cup BuildersByMinLeaf \cup BuildersByWhitelist
        \cup BuildersByFeatureFrac \cup BuildersByProcs

\* ----------------------------------------------------------------- Judger
\* largest number of samples handed to Judger.OptimalWeight
MaxJudgerData == 2

\* the Samples of the value function's training set: features and the
\* Advantage() that TrainingSamples put in them
JudgerSamplePool ==
    {[feat |-> <<0, 0>>, adv |-> 1],
     [feat |-> <<2, 1>>, adv |-> -2],
     [feat |-> <<1, 2>>, adv |-> 3]}

JudgerDataSets == SeqsUpTo(JudgerSamplePool, MaxJudgerData)

\* the value forests: empty, restored with a Base, grown by one and by two
\* trees
ValueFuncs ==
    {NewForest(ParamDim),
     [NewForest(ParamDim) EXCEPT !.Base = <<1, -1>>],
     ForestAdd(NewForest(ParamDim), TreeB, 1),
     ForestAdd(ForestAdd(NewForest(ParamDim), TreeB, 1), TreeC, 2)}

\* the trees whose weight is asked for; the first output of TreeZero is 0
\* everywhere
TreeZero == MkLeaf(<<0, 1>>)
JudgerTrees == TreePool \cup {TreeZero}

\* Forest.applySamples: the forest's output for every sample, and the
\* forest as the calls leave it
RECURSIVE ApplySamplesFrom(_, _, _, _)
ApplySamplesFrom(f, data, i, outs) ==
    IF i > Len(data) THEN [outs |-> outs, forest |-> f]
    ELSE LET r == ApplyFeatureSource(f, data[i].feat)
         IN ApplySamplesFrom(r.forest, data, i + 1, Append(outs, r.out))

ApplySamples(f, data) == ApplySamplesFrom(f, data, 1, <<>>)

\* the loop of Judger.OptimalWeight: numerator and denominator
RECURSIVE OptimalWeightLoop(_, _, _, _, _, _)
OptimalWeightLoop(t, data, outs, i, numerator, denominator) ==
    IF i > Len(data)
    THEN [numerator |-> numerator, denominator |-> denominator]
    ELSE LET out == FindFeatureSource(t, data[i].feat)[1]
             approximation == outs[i][1]
         IN OptimalWeightLoop(t, data, outs, i + 1,
                numerator + out * (data[i].adv - approximation),
                denominator + out * out)

\* Judger.OptimalWeight: the weight, and the value forest as the call
\* leaves it
OptimalWeightNoGuard(valueFunc, data, t) ==
    LET applied == ApplySamples(valueFunc, data)
        sums == OptimalWeightLoop(t, data, applied.outs, 1, 0, 0)
    IN [out |-> FDivCount(FInt(sums.numerator), sums.denominator),
        ValueFunc |-> applied.forest]

OptimalWeight(valueFunc, data, t) ==
    LET applied == ApplySamples(valueFunc, data)
        sums == OptimalWeightLoop(t, data, applied.outs, 1, 0, 0)
    IN [out |-> IF sums.denominator = 0 THEN FInt(0)
                ELSE FDivCount(FInt(sums.numerator), sums.denominator),
        ValueFunc |-> applied.forest]

NoJudger ==
    [pc |-> "idle", ValueFunc |-> NewForest(ParamDim),
     pre |-> NewForest(ParamDim), data |-> <<>>, t |-> TreeZero,
     out |-> FInt(0)]

\* OptimalWeight(data, t) is called and returns
OptimalWeightCall ==
    /\ jdg.pc = "ready"
    /\ LET r == OptimalWeight(jdg.ValueFunc, jdg.data, jdg.t)
       IN jdg' = [jdg EXCEPT !.pc = "done", !.out = r.out,
                             !.ValueFunc = r.ValueFunc]
    /\ UNCHANGED NotJudger

JudgerNext == OptimalWeightCall

\* -------------------------------------------------------------------- PPO
\* largest number of samples handed to PPO.Step
MaxPPOData == 2

\* anypg.DefaultPPOEpsilon, used when PPO.Epsilon is 0
DefaultPPOEpsilon == Frac(1, 5)

EpsilonChoices == {Frac(0, 1), Frac(1, 2)}

\* what a sample contributes to the surrogate: its Advantage(), the
\* probability ratio exp(newProb - oldProb) of its action under the forest,
\* and the gradient of newProb with respect to the forest's output
PPORatios ==
    {Frac(1, 4), Frac(1, 2), Frac(4, 5), Frac(1, 1), Frac(6, 5), Frac(3, 2),
     Frac(2, 1)}
PPOAdvantages == {-1, 0, 2}
LogProbGrad == <<1, -1>>

PPOSamplePool == [adv : PPOAdvantages, ratio : PPORatios]
PPODataSets == SeqsUpTo(PPOSamplePool, MaxPPOData)

\* epsilon := p.Epsilon; if epsilon == 0 { epsilon = anypg.DefaultPPOEpsilon }
EpsilonOf(eps) == IF eps.num = 0 THEN DefaultPPOEpsilon ELSE eps

\* a > b and a < b on two fractions with positive denominators
FracGreater(a, b) == a.num * b.den > b.num * a.den
FracLess(a, b) == a.num * b.den < b.num * a.den

\* PPO.shouldClip of PPO.gradient: the ratio is compared with 1 + epsilon
\* for a positive advantage and with 0 - epsilon otherwise
ShouldClip(eps, sample) ==
    LET epsilon == EpsilonOf(eps)
    IN IF sample.adv > 0
       THEN FracGreater(sample.ratio,
                        Frac(epsilon.den + epsilon.num, epsilon.den))
       ELSE FracLess(sample.ratio, Frac(0 - epsilon.num, epsilon.den))

\* the gradient of ratio * advantage with respect to the forest's output:
\* advantage * ratio * the gradient of newProb
RatioGradient(sample) ==
    [j \in 1..Len(LogProbGrad) |->
        FNum(sample.adv * sample.ratio.num * LogProbGrad[j],
             sample.ratio.den)]

\* PPO.gradient: the zero vector when clipped
Gradient(eps, sample) ==
    IF ShouldClip(eps, sample)
    THEN [j \in 1..Len(LogProbGrad) |-> FInt(0)]
    ELSE RatioGradient(sample)

\* PPO.bestValue
BestValue(eps, adv) ==
    LET epsilon == EpsilonOf(eps)
    IN IF adv < 0
       THEN Frac(adv * (epsilon.den - epsilon.num), epsilon.den)
       ELSE Frac(adv * (epsilon.den + epsilon.num), epsilon.den)

\* PPO.shouldClip of PPO.objective: rawObj = ratio * advantage > best
ShouldClipObjective(eps, sample) ==
    FracGreater(Frac(sample.ratio.num * sample.adv, sample.ratio.den),
                BestValue(eps, sample.adv))

\* the gradient PPO.objective returns without a Regularizer: a clipped
\* rawObj is a constant
ObjectiveGradient(eps, sample) ==
    IF ShouldClipObjective(eps, sample)
    THEN [j \in 1..Len(LogProbGrad) |-> FInt(0)]
    ELSE RatioGradient(sample)

NoPPO == [pc |-> "idle", Epsilon |-> Frac(0, 1), data |-> <<>>,
          gradSamples |-> <<>>]

\* one round of the loop of PPO.Step: the gradient of the next sample
StepGradient ==
    /\ ppo.pc = "running"
    /\ Len(ppo.gradSamples) < Len(ppo.data)
    /\ ppo' = [ppo EXCEPT !.gradSamples =
                  Append(@, Gradient(ppo.Epsilon,
                                     ppo.data[Len(ppo.gradSamples) + 1]))]
    /\ UNCHANGED NotPPO

\* the loop is over: the gradient samples go to the builder
StepBuild ==
    /\ ppo.pc = "running"
    /\ Len(ppo.gradSamples) = Len(ppo.data)
    /\ ppo' = [ppo EXCEPT !.pc = "built"]
    /\ UNCHANGED NotPPO

PPONext == StepGradient \/ StepBuild

\* --------------------------------------------------------- weightGradient
\* largest number of trees and of samples of a weightGradient call
MaxGradTrees == 3
MaxGradData == 2

\* the trees of the forest and the gradient samples computeObjective made
GradTreeSeqs == SeqsUpTo({TreeB, TreeD}, MaxGradTrees)
GradSampleSeqs ==
    SeqsUpTo({SamplePool[1], SamplePool[2]}, MaxGradData) \ {<<>>}

\* runtime.GOMAXPROCS(0)
ProcChoices == {1, 2}

\* treeWeightGradient: the loop over the samples
RECURSIVE TreeGradientSum(_, _, _, _)
TreeGradientSum(g, t, i, sum) ==
    IF i > Len(g) THEN sum
    ELSE TreeGradientSum(g, t, i + 1,
             sum + Dot(g[i].grad, FindFeatureSource(t, g[i].feat)))

\* treeWeightGradient
TreeWeightGradientNoMean(g, t) == FInt(TreeGradientSum(g, t, 1, 0))

TreeWeightGradient(g, t) ==
    FDivCount(FInt(TreeGradientSum(g, t, 1, 0)), Len(g))

\* an entry of grad no worker has written yet holds the 0 of make
NoWeightGrad ==
    [pc |-> "idle", procs |-> 0, g |-> <<>>, trees |-> <<>>,
     indices |-> <<>>, grad |-> <<>>, written |-> <<>>, wpc |-> <<>>,
     windex |-> <<>>]

\* weightGradient up to wg.Wait(): grad is made, the indices are queued
\* and the channel closed, the workers are started
WeightGradientStart(g, trees, procs) ==
    [pc |-> "wait", procs |-> procs, g |-> g, trees |-> trees,
     indices |-> [i \in 1..Len(trees) |-> i],
     grad |-> [i \in 1..Len(trees) |-> FInt(0)],
     written |-> [i \in 1..Len(trees) |-> 0],
     wpc |-> [w \in 1..procs |-> "range"],
     windex |-> [w \in 1..procs |-> 0]]

\* a worker receives the next index from the channel
WorkerTake(w) ==
    /\ wgr.pc = "wait"
    /\ wgr.wpc[w] = "range"
    /\ wgr.indices # <<>>
    /\ wgr' = [wgr EXCEPT !.indices = Tail(@),
                          !.windex[w] = Head(wgr.indices),
                          !.wpc[w] = "write"]
    /\ UNCHANGED NotWeightGrad

\* grad[index] = treeWeightGradient(gradSamples, tree)
WorkerWrite(w) ==
    /\ wgr.pc = "wait"
    /\ wgr.wpc[w] = "write"
    /\ LET index == wgr.windex[w]
       IN wgr' = [wgr EXCEPT
                     !.grad[index] = TreeWeightGradient(wgr.g,
                                                        wgr.trees[index]),
                     !.written[index] = @ + 1,
                     !.wpc[w] = "range"]
    /\ UNCHANGED NotWeightGrad

\* the channel is closed and drained: the loop ends, wg.Done() runs
WorkerDone(w) ==
    /\ wgr.pc = "wait"
    /\ wgr.wpc[w] = "range"
    /\ wgr.indices = <<>>
    /\ wgr' = [wgr EXCEPT !.wpc[w] = "done"]
    /\ UNCHANGED NotWeightGrad

\* wg.Wait() returns and weightGradient returns grad
WeightGradientReturn ==
    /\ wgr.pc = "wait"
    /\ \A w \in 1..wgr.procs : wgr.wpc[w] = "done"
    /\ wgr' = [wgr EXCEPT !.pc = "returned"]
    /\ UNCHANGED NotWeightGrad

WeightGradNext ==
    \/ \E w \in 1..wgr.procs : WorkerTake(w)
    \/ \E w \in 1..wgr.procs : WorkerWrite(w)
    \/ \E w \in 1..wgr.procs : WorkerDone(w)
    \/ WeightGradientReturn

\* ---------------------------------------------------------- sample streams
\* largest number of timesteps on the rollout tapes
MaxTimesteps == 2

\* which lanes of the batch are present at a timestep
PresentChoices == {<<TRUE, TRUE>>, <<TRUE, FALSE>>, <<FALSE, TRUE>>}
TapeChoices == SeqsUpTo(PresentChoices, MaxTimesteps)

\* advantages[lane][timestep]
Advantages(lane, timestep) == 10 * lane + timestep

\* what the tapes hold for a lane at a timestep: the features, the action
\* and the agent's output; the second feature of the second lane is no
\* 8-bit integer
PackedEntry(lane, timestep) ==
    [features |-> <<timestep, 240 + 10 * lane>>,
     action |-> <<10 * timestep + lane>>,
     actionParams |-> <<lane, timestep>>]

\* the lanes present at a timestep, in order: entry i of the packed vectors
\* belongs to PresentLanes[i]
RECURSIVE PresentLanesFrom(_, _)
PresentLanesFrom(present, lane) ==
    IF lane > Len(present) THEN <<>>
    ELSE (IF present[lane] THEN <<lane>> ELSE <<>>)
             \o PresentLanesFrom(present, lane + 1)

Packed(present, timestep) ==
    LET lanes == PresentLanesFrom(present, 1)
    IN [i \in 1..Len(lanes) |-> PackedEntry(lanes[i], timestep)]

\* the memorySample RolloutSamples sends for a lane: the i-th slices of the
\* packed vectors and advantages[lane][timestep]
MemorySamplePackedAdvantage(packed, i, lane, timestep) ==
    [features |-> packed[i].features, action |-> packed[i].action,
     actionParams |-> packed[i].actionParams,
     advantage |-> Advantages(i, timestep)]

MemorySample(packed, i, lane, timestep) ==
    [features |-> packed[i].features, action |-> packed[i].action,
     actionParams |-> packed[i].actionParams,
     advantage |-> Advantages(lane, timestep)]

\* uint8(x) for a float64 x: the value itself when it fits, and an
\* implementation-dependent value otherwise
Uint8Of(x) == IF x \in 0..255 THEN {x} ELSE {x % 256, 0, 255}

\* the feature slices the loop of Uint8Samples may fill
RECURSIVE Uint8Features(_, _)
Uint8Features(in, dim) ==
    IF dim = 0 THEN {<<>>}
    ELSE {Append(f, x) : f \in Uint8Features(in, dim - 1),
                         x \in Uint8Of(in.features[dim])}

\* the uint8Samples Uint8Samples may make of a Sample
Uint8SamplesOf(in) ==
    {[features |-> f, action |-> in.action,
      actionParams |-> in.actionParams, advantage |-> in.advantage] :
        f \in Uint8Features(in, Len(in.features))}

NoStream ==
    [tape |-> <<>>, rpc |-> "idle", timestep |-> 0, lane |-> 0, i |-> 0,
     rchan |-> <<>>, rclosed |-> FALSE,
     upc |-> "idle", in |-> <<>>, seen |-> <<>>, res |-> <<>>,
     resclosed |-> FALSE,
     cpc |-> "idle", all |-> <<>>]

\* RolloutSamples: for inputs := range inChan, and the deferred close(res)
\* when the tape is exhausted
RolloutRange ==
    /\ strm.rpc = "range"
    /\ IF strm.timestep < Len(strm.tape)
       THEN strm' = [strm EXCEPT !.rpc = "lanes", !.lane = 1, !.i = 0]
       ELSE strm' = [strm EXCEPT !.rpc = "exited", !.rclosed = TRUE]
    /\ UNCHANGED NotStream

\* RolloutSamples: one round of the loop over the lanes; a lane that is
\* not present is skipped, a present one sent on the channel of capacity 1
RolloutLane ==
    /\ strm.rpc = "lanes"
    /\ LET present == strm.tape[strm.timestep + 1]
       IN IF strm.lane > Len(present)
          THEN strm' = [strm EXCEPT !.rpc = "range", !.timestep = @ + 1]
          ELSE IF ~present[strm.lane]
          THEN strm' = [strm EXCEPT !.lane = @ + 1]
          ELSE /\ Len(strm.rchan) < 1
               /\ strm' = [strm EXCEPT
                              !.rchan = Append(@,
                                  MemorySample(Packed(present,
                                                      strm.timestep + 1),
                                               strm.i + 1, strm.lane,
                                               strm.timestep + 1)),
                              !.i = @ + 1, !.lane = @ + 1]
    /\ UNCHANGED NotStream

\* Uint8Samples: for in := range incoming, and the conversion
Uint8Recv ==
    /\ strm.upc = "range"
    /\ strm.rchan # <<>>
    /\ \E sample \in Uint8SamplesOf(Head(strm.rchan)) :
           strm' = [strm EXCEPT !.rchan = Tail(@), !.in = <<sample>>,
                                !.seen = Append(@, Head(strm.rchan)),
                                !.upc = "send"]
    /\ UNCHANGED NotStream

\* Uint8Samples: res <- sample, on a channel of capacity 1
Uint8Send ==
    /\ strm.upc = "send"
    /\ Len(strm.res) < 1
    /\ strm' = [strm EXCEPT !.res = Append(@, strm.in[1]), !.in = <<>>,
                            !.upc = "range"]
    /\ UNCHANGED NotStream

\* Uint8Samples: incoming is closed and drained; the deferred close(res)
Uint8Exit ==
    /\ strm.upc = "range"
    /\ strm.rchan = <<>>
    /\ strm.rclosed
    /\ strm' = [strm EXCEPT !.upc = "exited", !.resclosed = TRUE]
    /\ UNCHANGED NotStream

\* AllSamples: for s := range ch { res = append(res, s) }
AllSamplesRecv ==
    /\ strm.cpc = "range"
    /\ strm.res # <<>>
    /\ strm' = [strm EXCEPT !.res = Tail(@),
                            !.all = Append(@, Head(strm.res))]
    /\ UNCHANGED NotStream

\* AllSamples: the channel is closed and drained, the slice is returned
AllSamplesReturn ==
    /\ strm.cpc = "range"
    /\ strm.res = <<>>
    /\ strm.resclosed
    /\ strm' = [strm EXCEPT !.cpc = "done"]
    /\ UNCHANGED NotStream

StreamNext ==
    \/ RolloutRange
    \/ RolloutLane
    \/ Uint8Recv
    \/ Uint8Send
    \/ Uint8Exit
    \/ AllSamplesRecv
    \/ AllSamplesReturn

\* ------------------------------------------------ value training loop
\* largest flags.ValIters
MaxValIters == 4

\* flags.MaxTrees, flags.TreeDecay, the step of an Add
MaxTreesChoices == -1..MaxTrees
TreeDecayChoices == {0, 1}
ValStepChoices == {1, 2}

\* the value forests loadOrCreateForest may return under flags.MaxTrees
\* = m: with m > 0, a forest of at most m trees
ValueForests(m) ==
    LET most == IF m > 0 THEN m ELSE MaxTrees
    IN {[Base |-> <<0>>, Trees |-> ts, Weights |-> [i \in 1..Len(ts) |-> 1]] :
           ts \in SeqsUpTo(ForestTrees, most)}

NoValueLoop ==
    [pc |-> "idle", MaxTrees |-> 0, TreeDecay |-> 1, ValIters |-> 0, i |-> 0,
     forest |-> NewForest(1), hist |-> <<>>, removed |-> 0]

\* decayForest(flags, valueFunc); RemoveFirst on a forest without trees
\* panics in OrderedDelete
DecayForestAlways ==
    /\ vloop.pc = "decay"
    /\ vloop.i < vloop.ValIters
    /\ LET scaled == IF vloop.TreeDecay < 1
                     THEN ForestScale(vloop.forest, vloop.TreeDecay)
                     ELSE vloop.forest
       IN IF Len(scaled.Trees) = 0
          THEN vloop' = [vloop EXCEPT !.pc = "panic", !.forest = scaled]
          ELSE vloop' = [vloop EXCEPT !.pc = "add", !.removed = @ + 1,
                                !.forest = ForestRemoveFirst(scaled)]
    /\ UNCHANGED NotValueLoop

DecayForest ==
    /\ vloop.pc = "decay"
    /\ vloop.i < vloop.ValIters
    /\ LET scaled == IF vloop.TreeDecay < 1
                     THEN ForestScale(vloop.forest, vloop.TreeDecay)
                     ELSE vloop.forest
       IN IF vloop.MaxTrees > 0 /\ Len(scaled.Trees) >= vloop.MaxTrees
          THEN IF Len(scaled.Trees) = 0
               THEN vloop' = [vloop EXCEPT !.pc = "panic", !.forest = scaled]
               ELSE vloop' = [vloop EXCEPT
                                 !.pc = "add", !.removed = @ + 1,
                                 !.forest = ForestRemoveFirst(scaled)]
          ELSE vloop' = [vloop EXCEPT !.pc = "add", !.forest = scaled]
    /\ UNCHANGED NotValueLoop

\* judger.Train, judger.OptimalWeight and valueFunc.Add(tree, step)
ValueAdd ==
    /\ vloop.pc = "add"
    /\ \E tree \in ForestTrees, step \in ValStepChoices :
           vloop' = [vloop EXCEPT
                        !.pc = "decay", !.i = @ + 1,
                        !.forest = ForestAdd(@, tree, step),
                        !.hist = Append(@, tree)]
    /\ UNCHANGED NotValueLoop

\* the loop over i < flags.ValIters is over
ValueLoopEnd ==
    /\ vloop.pc = "decay"
    /\ vloop.i = vloop.ValIters
    /\ vloop' = [vloop EXCEPT !.pc = "done"]
    /\ UNCHANGED NotValueLoop

ValueLoopNext ==
    \/ DecayForest
    \/ ValueAdd
    \/ ValueLoopEnd

\* ----------------------------------------------------------------- driver
\* largest number of batches the training goroutine runs through
MaxBatches == 2

\* the Forest methods a batch calls, in order: the tuning step on the
\* policy, the boosting step on the policy, decayForest and Add on the
\* value function
BatchMutations ==
    <<"AddWeights", "PruneNegative", "Add", "Scale", "RemoveFirst", "Add">>

\* the snapshot files, in the order they are written
SnapshotFiles == <<"ActorFile", "CriticFile">>

\* tpc is where the training goroutine stands, mpc where main does;
\* mutating and writing name the Forest method and the ioutil.WriteFile
\* call in progress, and a file is partial while it is being written
NoDriver ==
    [tpc |-> "idle", mpc |-> "idle", trainLock |-> "free", batchIdx |-> 0,
     k |-> 0, mutating |-> "none", file |-> 0, writing |-> "none",
     written |-> 0, exited |-> FALSE]

\* experiments.GatherRollouts, JudgeActions and the sample streams
DriverGather ==
    /\ ~drv.exited
    /\ drv.tpc = "gather"
    /\ drv.batchIdx < MaxBatches
    /\ drv' = [drv EXCEPT !.tpc = "train", !.k = 1]
    /\ UNCHANGED NotDriver

\* the next Forest method of the batch is entered
DriverMutateBegin ==
    /\ ~drv.exited
    /\ drv.tpc = "train"
    /\ drv.mutating = "none"
    /\ drv.k <= Len(BatchMutations)
    /\ drv' = [drv EXCEPT !.mutating = BatchMutations[drv.k]]
    /\ UNCHANGED NotDriver

\* the Forest method returns
DriverMutateEnd ==
    /\ ~drv.exited
    /\ drv.tpc = "train"
    /\ drv.mutating # "none"
    /\ drv' = [drv EXCEPT !.mutating = "none", !.k = @ + 1]
    /\ UNCHANGED NotDriver

\* log.Println("Saving..."): the training of the batch is over
DriverTrained ==
    /\ ~drv.exited
    /\ drv.tpc = "train"
    /\ drv.mutating = "none"
    /\ drv.k > Len(BatchMutations)
    /\ drv' = [drv EXCEPT !.tpc = "lock"]
    /\ UNCHANGED NotDriver

\* trainLock.Lock() of the training goroutine
DriverLock ==
    /\ ~drv.exited
    /\ drv.tpc = "lock"
    /\ drv.trainLock = "free"
    /\ drv' = [drv EXCEPT !.trainLock = "train", !.tpc = "save", !.file = 1]
    /\ UNCHANGED NotDriver

\* json.Marshal, and ioutil.WriteFile is entered
DriverWriteBegin ==
    /\ ~drv.exited
    /\ drv.tpc = "save"
    /\ drv.writing = "none"
    /\ drv.file <= Len(SnapshotFiles)
    /\ drv' = [drv EXCEPT !.writing = SnapshotFiles[drv.file]]
    /\ UNCHANGED NotDriver

\* ioutil.WriteFile returns
DriverWriteEnd ==
    /\ ~drv.exited
    /\ drv.tpc = "save"
    /\ drv.writing # "none"
    /\ drv' = [drv EXCEPT !.writing = "none", !.file = @ + 1,
                          !.written = @ + 1]
    /\ UNCHANGED NotDriver

\* trainLock.Unlock(), and the next batch
DriverUnlock ==
    /\ ~drv.exited
    /\ drv.tpc = "save"
    /\ drv.writing = "none"
    /\ drv.file > Len(SnapshotFiles)
    /\ drv' = [drv EXCEPT !.trainLock = "free", !.tpc = "gather",
                          !.batchIdx = @ + 1]
    /\ UNCHANGED NotDriver

\* <-rip.NewRIP().Chan(): Ctrl+C arrives
MainInterrupted ==
    /\ drv.mpc = "wait"
    /\ drv' = [drv EXCEPT !.mpc = "lock"]
    /\ UNCHANGED NotDriver

\* trainLock.Lock() of main
MainLockSkipped ==
    /\ drv.mpc = "lock"
    /\ drv' = [drv EXCEPT !.mpc = "return"]
    /\ UNCHANGED NotDriver

MainLock ==
    /\ drv.mpc = "lock"
    /\ drv.trainLock = "free"
    /\ drv' = [drv EXCEPT !.trainLock = "main", !.mpc = "return"]
    /\ UNCHANGED NotDriver

\* main returns: the process exits, the training goroutine with it
MainReturn ==
    /\ drv.mpc = "return"
    /\ drv' = [drv EXCEPT !.mpc = "exited", !.exited = TRUE]
    /\ UNCHANGED NotDriver

DriverNext ==
    \/ DriverGather
    \/ DriverMutateBegin
    \/ DriverMutateEnd
    \/ DriverTrained
    \/ DriverLock
    \/ DriverWriteBegin
    \/ DriverWriteEnd
    \/ DriverUnlock
    \/ MainInterrupted
    \/ MainLock
    \/ MainReturn

\* ---------------------------------------------------------- GatherRollouts
\* largest len(envs) of a call
MaxEnvs == 2

\* largest steps argument of a call
MaxSteps == 3

\* largest NumSteps() of one rollout
MaxRolloutSteps == 2

\* the capacity of resChan and of errChan
ChanCap == 1

\* no call is running; wpc is where each worker goroutine stands, cpc the
\* closing goroutine and mpc the caller. failures lists the workers in the
\* order they reported an error and panicked records a send on, or a close
\* of, a closed channel
NoGather ==
    [n |-> 0, steps |-> 0, requests |-> 0, reqClosed |-> FALSE,
     resChan |-> <<>>, resClosed |-> FALSE,
     errChan |-> <<>>, errClosed |-> FALSE,
     wpc |-> [w \in 1..MaxEnvs |-> "none"],
     rollout |-> [w \in 1..MaxEnvs |-> 0],
     cpc |-> "none", mpc |-> "none", item |-> 0, res |-> <<>>,
     totalSteps |-> 0, err |-> 0, failures |-> <<>>, panicked |-> FALSE]

\* the channels are made, requests holds one request per environment and
\* the goroutines have been started
GatherStart(n, steps) ==
    [NoGather EXCEPT !.n = n, !.steps = steps, !.requests = n,
                     !.wpc = [w \in 1..MaxEnvs |->
                                 IF w <= n THEN "range" ELSE "none"],
                     !.cpc = "wait", !.mpc = "range"]

\* for _ = range requests: the worker takes a request, or leaves the loop
\* when requests is closed and drained
RolloutTake(w) ==
    /\ w <= gr.n
    /\ gr.wpc[w] = "range"
    /\ \/ /\ gr.requests > 0
          /\ gr' = [gr EXCEPT !.requests = @ - 1, !.wpc[w] = "rollout"]
       \/ /\ gr.requests = 0
          /\ gr.reqClosed
          /\ gr' = [gr EXCEPT !.wpc[w] = "done"]
    /\ UNCHANGED NotGather

\* roller.Rollout(env) returns a rollout or an error
RolloutRun(w) ==
    /\ w <= gr.n
    /\ gr.wpc[w] = "rollout"
    /\ \/ \E numSteps \in 1..MaxRolloutSteps :
             gr' = [gr EXCEPT !.wpc[w] = "send", !.rollout[w] = numSteps]
       \/ gr' = [gr EXCEPT !.wpc[w] = "failed"]
    /\ UNCHANGED NotGather

\* resChan <- rollout
RolloutSend(w) ==
    /\ w <= gr.n
    /\ gr.wpc[w] = "send"
    /\ \/ /\ gr.resClosed
          /\ gr' = [gr EXCEPT !.panicked = TRUE, !.wpc[w] = "done"]
       \/ /\ ~gr.resClosed
          /\ Len(gr.resChan) < ChanCap
          /\ gr' = [gr EXCEPT !.resChan = Append(@, gr.rollout[w]),
                              !.rollout[w] = 0, !.wpc[w] = "range"]
    /\ UNCHANGED NotGather

\* select { case errChan <- err: default: }; return
RolloutFailBlocking(w) ==
    /\ w <= gr.n
    /\ gr.wpc[w] = "failed"
    /\ Len(gr.errChan) < ChanCap
    /\ gr' = [gr EXCEPT !.errChan = Append(@, w),
                        !.failures = Append(@, w), !.wpc[w] = "done"]
    /\ UNCHANGED NotGather

RolloutFail(w) ==
    /\ w <= gr.n
    /\ gr.wpc[w] = "failed"
    /\ gr' = [gr EXCEPT !.errChan = IF Len(@) < ChanCap /\ ~gr.errClosed
                                    THEN Append(@, w) ELSE @,
                        !.panicked = @ \/ gr.errClosed,
                        !.failures = Append(@, w), !.wpc[w] = "done"]
    /\ UNCHANGED NotGather

\* wg.Wait() returns once every worker has returned
CloserWait ==
    /\ gr.cpc = "wait"
    /\ \A w \in 1..gr.n : gr.wpc[w] = "done"
    /\ gr' = [gr EXCEPT !.cpc = "closeRes"]
    /\ UNCHANGED NotGather

\* close(resChan)
CloserCloseRes ==
    /\ gr.cpc = "closeRes"
    /\ gr' = [gr EXCEPT !.resClosed = TRUE, !.cpc = "closeErr"]
    /\ UNCHANGED NotGather

\* close(errChan)
CloserCloseErr ==
    /\ gr.cpc = "closeErr"
    /\ gr' = [gr EXCEPT !.errClosed = TRUE, !.cpc = "done"]
    /\ UNCHANGED NotGather

\* for item := range resChan: an item is received, or the loop is left
\* when resChan is closed and drained
CollectRange ==
    /\ gr.mpc = "range"
    /\ \/ /\ gr.resChan # <<>>
          /\ gr' = [gr EXCEPT !.item = Head(gr.resChan),
                              !.resChan = Tail(@), !.mpc = "body"]
       \/ /\ gr.resChan = <<>>
          /\ gr.resClosed
          /\ gr' = [gr EXCEPT !.mpc = "recvErr"]
    /\ UNCHANGED NotGather

\* the body of the loop: the item is kept and counted, and a request is
\* sent or requests is closed
CollectBody ==
    /\ gr.mpc = "body"
    /\ LET total == gr.totalSteps + gr.item
           kept == [gr EXCEPT !.res = Append(@, gr.item), !.item = 0,
                              !.mpc = "range"]
       IN IF gr.totalSteps >= gr.steps
          THEN gr' = kept
          ELSE IF total < gr.steps
          THEN \/ /\ gr.reqClosed
                  /\ gr' = [kept EXCEPT !.totalSteps = total,
                                        !.panicked = TRUE]
               \/ /\ ~gr.reqClosed
                  /\ gr.requests < gr.n
                  /\ gr' = [kept EXCEPT !.totalSteps = total,
                                        !.requests = @ + 1]
          ELSE gr' = [kept EXCEPT !.totalSteps = total,
                                  !.panicked = gr.reqClosed,
                                  !.reqClosed = TRUE]
    /\ UNCHANGED NotGather

\* return packed, entropy, <-errChan
CollectReturn ==
    /\ gr.mpc = "recvErr"
    /\ \/ /\ gr.errChan # <<>>
          /\ gr' = [gr EXCEPT !.err = Head(gr.errChan),
                              !.errChan = Tail(@), !.mpc = "returned"]
       \/ /\ gr.errChan = <<>>
          /\ gr.errClosed
          /\ gr' = [gr EXCEPT !.err = 0, !.mpc = "returned"]
    /\ UNCHANGED NotGather

GatherNext ==
    \/ \E w \in 1..MaxEnvs : RolloutTake(w)
    \/ \E w \in 1..MaxEnvs : RolloutRun(w)
    \/ \E w \in 1..MaxEnvs : RolloutSend(w)
    \/ \E w \in 1..MaxEnvs : RolloutFail(w)
    \/ CloserWait
    \/ CloserCloseRes
    \/ CloserCloseErr
    \/ CollectRange
    \/ CollectBody
    \/ CollectReturn

\* -------------------------------------------------------- specifications
ForestIdle ==
    /\ forest = NewForest(ParamDim)
    /\ last = NoOp
    /\ fatal = FALSE

FindIdle == desc = NoDesc

TrackerIdle == trk = NoTracker

BuildIdle ==
    /\ bcfg = DefaultBuilder
    /\ bdata = <<>>
    /\ bpc = "ready"
    /\ bstack = <<>>
    /\ bnodes = <<>>
    /\ bsearch = NoSearch
    /\ bsigned = NoSigned

JudgerIdle == jdg = NoJudger

\* the components modelled first, and the others, at rest
CoreIdle == ForestIdle /\ FindIdle /\ TrackerIdle /\ BuildIdle
PPOIdle == ppo = NoPPO

WeightGradIdle == wgr = NoWeightGrad

StreamIdle == strm = NoStream

ValueLoopIdle == vloop = NoValueLoop

DriverIdle == drv = NoDriver

GatherIdle == gr = NoGather

DriversIdle == ValueLoopIdle /\ DriverIdle /\ GatherIdle

RestIdle ==
    JudgerIdle /\ PPOIdle /\ WeightGradIdle /\ StreamIdle /\ DriversIdle

\* the forest of a training run: new, or restored with its Base
ForestInit ==
    /\ \E b \in BaseChoices : forest = [NewForest(ParamDim) EXCEPT !.Base = b]
    /\ last = NoOp
    /\ fatal = FALSE
    /\ FindIdle
    /\ TrackerIdle
    /\ BuildIdle
    /\ RestIdle

Spec == ForestInit /\ [][ForestNext]_vars

FindInit == CoreIdle /\ RestIdle

\* a running call keeps running: the descent is sequential code
SpecFind ==
    /\ FindInit
    /\ [][FindNext]_vars
    /\ WF_vars(FindDescend)
    /\ WF_vars(FindReturn)

TrackerInit == CoreIdle /\ RestIdle

SpecTracker == TrackerInit /\ [][TrackerNext]_vars

\* build is about to be called, with a sample list or with none
BuildInit ==
    /\ ForestIdle /\ FindIdle /\ TrackerIdle
    /\ RestIdle
    /\ bcfg \in Builders
    /\ bdata \in DataSets \cup {<<>>}
    /\ bpc = "ready"
    /\ bstack = <<>>
    /\ bnodes = <<>>
    /\ bsearch = NoSearch
    /\ bsigned = NoSigned

SpecBuild == BuildInit /\ [][BuildNext]_vars

\* the guard of WorkerSend(w)
CanSend(w) ==
    /\ w <= bcfg.procs
    /\ bsearch.active
    /\ bsearch.wpc[w] = "send"
    /\ Len(bsearch.splitChan) < NumFeat

\* weak fairness of WorkerSend(w), written out with its guard
FairSend(w) ==
    \/ []<>(~CanSend(w))
    \/ []<><<w <= bcfg.procs /\ WorkerSend(w)>>_vars

\* the same, the goroutines being scheduled in any order and none that can
\* take a step waiting forever
SpecBuildFair ==
    /\ BuildInit /\ [][BuildNext]_vars
    /\ WF_vars(BuildCall)
    /\ WF_vars(NodeEnter)
    /\ WF_vars(CloseSplitChan)
    /\ WF_vars(ReduceRecv)
    /\ WF_vars(NodeFinish)
    /\ WF_vars(BuildReturn)
    /\ \A w \in 1..MaxProcs :
           /\ WF_vars(w <= bcfg.procs /\ WorkerRecv(w))
           /\ FairSend(w)
           /\ WF_vars(w <= bcfg.procs /\ WorkerExit(w))

\* build is about to be called with runtime.GOMAXPROCS(0) = 1..MaxProcs,
\* on all the features or on half of them
SearchBuilders ==
    {[DefaultBuilder EXCEPT !.procs = p, !.FeatureFrac = f,
                            !.MaxDepth = 1] :
        p \in 1..MaxProcs, f \in {Frac(0, 1), Frac(1, 2)}}

SearchInit ==
    /\ ForestIdle /\ FindIdle /\ TrackerIdle
    /\ RestIdle
    /\ bcfg \in SearchBuilders
    /\ bdata \in DataSets
    /\ bpc = "ready"
    /\ bstack = <<>>
    /\ bnodes = <<>>
    /\ bsearch = NoSearch
    /\ bsigned = NoSigned

\* the goroutines of a split search are scheduled in any order, and none
\* that can take a step waits forever
SpecSearch ==
    /\ SearchInit /\ [][BuildNext]_vars
    /\ WF_vars(CloseSplitChan)
    /\ WF_vars(ReduceRecv)
    /\ WF_vars(NodeFinish)
    /\ \A w \in 1..MaxProcs :
           /\ WF_vars(w <= bcfg.procs /\ WorkerRecv(w))
           /\ FairSend(w)
           /\ WF_vars(w <= bcfg.procs /\ WorkerExit(w))

\* OptimalWeight is about to be called
JudgerInit ==
    /\ CoreIdle
    /\ DriversIdle
    /\ StreamIdle
    /\ PPOIdle
    /\ WeightGradIdle
    /\ \E f \in ValueFuncs : \E data \in JudgerDataSets :
           \E t \in JudgerTrees :
               jdg = [NoJudger EXCEPT !.pc = "ready", !.ValueFunc = f,
                                      !.pre = f, !.data = data, !.t = t]

SpecJudger == JudgerInit /\ [][JudgerNext]_vars

\* PPO.Step is called
PPOInit ==
    /\ CoreIdle
    /\ DriversIdle
    /\ StreamIdle
    /\ JudgerIdle
    /\ WeightGradIdle
    /\ \E eps \in EpsilonChoices : \E data \in PPODataSets :
           ppo = [NoPPO EXCEPT !.pc = "running", !.Epsilon = eps,
                               !.data = data]

SpecPPO == PPOInit /\ [][PPONext]_vars

\* weightGradient has started its workers
WeightGradInit ==
    /\ CoreIdle
    /\ DriversIdle
    /\ StreamIdle
    /\ JudgerIdle
    /\ PPOIdle
    /\ \E g \in GradSampleSeqs : \E trees \in GradTreeSeqs :
           \E procs \in ProcChoices :
               wgr = WeightGradientStart(g, trees, procs)

SpecWeightGrad == WeightGradInit /\ [][WeightGradNext]_vars

\* AllSamples(Uint8Samples(RolloutSamples(r, advantages))) has been called
StreamInit ==
    /\ CoreIdle
    /\ DriversIdle
    /\ JudgerIdle
    /\ PPOIdle
    /\ WeightGradIdle
    /\ \E tape \in TapeChoices :
           strm = [NoStream EXCEPT !.tape = tape, !.rpc = "range",
                                   !.upc = "range", !.cpc = "range"]

\* the goroutines are scheduled and the consumer keeps reading
SpecStream ==
    /\ StreamInit
    /\ [][StreamNext]_vars
    /\ WF_vars(RolloutRange)
    /\ WF_vars(RolloutLane)
    /\ WF_vars(Uint8Recv)
    /\ WF_vars(Uint8Send)
    /\ WF_vars(Uint8Exit)
    /\ WF_vars(AllSamplesRecv)
    /\ WF_vars(AllSamplesReturn)

\* the value training loop is about to start, with flags.MaxTrees = m and
\* a value forest of at most m trees when m > 0
ValueLoopInit ==
    /\ CoreIdle
    /\ JudgerIdle /\ PPOIdle /\ WeightGradIdle /\ StreamIdle
    /\ DriverIdle /\ GatherIdle
    /\ \E m \in MaxTreesChoices, decay \in TreeDecayChoices,
          iters \in 0..MaxValIters :
           \E f \in ValueForests(m) :
               vloop = [NoValueLoop EXCEPT
                           !.pc = "decay", !.MaxTrees = m,
                           !.TreeDecay = decay, !.ValIters = iters,
                           !.forest = f, !.hist = f.Trees]

SpecValueLoop == ValueLoopInit /\ [][ValueLoopNext]_vars

\* the driver has started its training goroutine and waits for Ctrl+C
DriverInit ==
    /\ CoreIdle
    /\ JudgerIdle /\ PPOIdle /\ WeightGradIdle /\ StreamIdle
    /\ ValueLoopIdle /\ GatherIdle
    /\ drv = [NoDriver EXCEPT !.tpc = "gather", !.mpc = "wait"]

SpecDriver == DriverInit /\ [][DriverNext]_vars

\* GatherRollouts has been called with at least one environment and
\* steps >= 1
GatherInit ==
    /\ CoreIdle
    /\ JudgerIdle /\ PPOIdle /\ WeightGradIdle /\ StreamIdle
    /\ ValueLoopIdle /\ DriverIdle
    /\ \E n \in 1..MaxEnvs, steps \in 1..MaxSteps : gr = GatherStart(n, steps)

\* every goroutine that can take a step is scheduled in the end
SpecGather ==
    /\ GatherInit
    /\ [][GatherNext]_vars
    /\ \A w \in 1..MaxEnvs :
          /\ WF_vars(RolloutTake(w))
          /\ WF_vars(RolloutRun(w))
          /\ WF_vars(RolloutSend(w))
          /\ WF_vars(RolloutFail(w))
    /\ WF_vars(CloserWait)
    /\ WF_vars(CloserCloseRes)
    /\ WF_vars(CloserCloseErr)
    /\ WF_vars(CollectRange)
    /\ WF_vars(CollectBody)
    /\ WF_vars(CollectReturn)

\* ------------------------------------------------------ claims C1 .. C8

\* C1: after any sequence of Add, Scale, RemoveFirst, add_weights and
\* prune_non_positive from a new forest, len(Trees) == len(Weights).
C1_LenTreesEqWeights == Len(forest.Trees) = Len(forest.Weights)

C1_Witness ==
    /\ last.op = "RemoveFirst"
    /\ Len(forest.Trees) = 2
    /\ \E i \in 1..Len(last.pre.Weights) : last.pre.Weights[i] = 2

\* the sum over i of Weights[i] * Trees[i].Find(x)[j], last tree first
RECURSIVE WeightedSum(_, _, _, _)
WeightedSum(f, x, j, n) ==
    IF n = 0 THEN 0
    ELSE f.Weights[n] * Find(f.Trees[n], x)[j] + WeightedSum(f, x, j, n - 1)

\* C2: Apply(x)[j] = Base[j] + sum_i Weights[i] * Trees[i].Find(x)[j]; with
\* no trees the result equals Base.
C2_ApplyIsWeightedSum ==
    last.op = "Apply" =>
        /\ Len(last.out) = ParamDim
        /\ \A j \in 1..ParamDim :
              last.out[j] = last.pre.Base[j]
                  + WeightedSum(last.pre, last.x, j, Len(last.pre.Trees))
        /\ (Len(last.pre.Trees) = 0 => last.out = last.pre.Base)

C2_Witness ==
    /\ last.op = "Apply"
    /\ Len(last.pre.Trees) = 3
    /\ last.pre.Trees[1] # last.pre.Trees[2]
    /\ last.pre.Weights[1] # last.pre.Weights[2]
    /\ last.pre.Base # Zeros(ParamDim)
    /\ last.out # last.pre.Base

\* C3: Apply returns a fresh vector and leaves Base, Weights, the trees and
\* every leaf's Params as they were.
C3_ApplyLeavesForest ==
    last.op = "Apply" => forest = last.pre

C3_Witness ==
    /\ last.op = "Apply"
    /\ Len(forest.Trees) >= 2
    /\ last.out # forest.Base

\* C4: Scale(s) multiplies every weight by s and changes nothing else, so
\* the new Apply(x) is Base + s * (old Apply(x) - Base) for every x.
C4_ScaleScalesWeights ==
    last.op = "Scale" =>
        /\ forest.Base = last.pre.Base
        /\ forest.Trees = last.pre.Trees
        /\ Len(forest.Weights) = Len(last.pre.Weights)
        /\ \A i \in 1..Len(forest.Weights) :
              forest.Weights[i] = last.pre.Weights[i] * last.arg
        /\ \A x \in FeatureVecs : \A j \in 1..ParamDim :
              ForestApply(forest, x).out[j] =
                  forest.Base[j]
                      + last.arg * (ForestApply(last.pre, x).out[j]
                                        - forest.Base[j])

C4_Witness ==
    /\ last.op = "Scale"
    /\ last.arg = 2
    /\ Len(forest.Trees) >= 2
    /\ \A i \in 1..Len(forest.Weights) : forest.Weights[i] # 0
    /\ forest.Base # Zeros(ParamDim)

\* C5: RemoveFirst on k >= 1 trees removes the pair at index 0: k-1 pairs
\* remain, entry i is the old entry i+1, Base is unchanged.
C5_RemoveFirstShifts ==
    last.op = "RemoveFirst" =>
        /\ Len(forest.Trees) = Len(last.pre.Trees) - 1
        /\ Len(forest.Weights) = Len(last.pre.Weights) - 1
        /\ \A i \in 1..Len(forest.Trees) :
              /\ forest.Trees[i] = last.pre.Trees[i + 1]
              /\ forest.Weights[i] = last.pre.Weights[i + 1]
        /\ forest.Base = last.pre.Base

C5_Witness ==
    /\ last.op = "RemoveFirst"
    /\ Len(last.pre.Trees) = 3
    /\ last.pre.Trees[1] # last.pre.Trees[2]
    /\ last.pre.Weights[1] # last.pre.Weights[3]

\* the indices of the pairs with a positive weight, and the i-th smallest
Kept(f) == {i \in 1..Len(f.Weights) : f.Weights[i] > 0}

KeptAt(f, j) ==
    CHOOSE i \in Kept(f) : Cardinality({k \in Kept(f) : k < i}) = j - 1

\* C6: prune_non_positive removes exactly the pairs with weight <= 0 (0
\* included), returns their number and keeps the others in order, each tree
\* with its weight; every remaining weight is > 0.  The weights
\* 10 * [1,-0.5,0.3,0,2,-1,0.1,0.2,0.7,-0.3] give 4 and
\* 10 * [1,0.3,2,0.1,0.2,0.7].
ScenarioC ==
    [Base |-> Zeros(ParamDim),
     Trees |-> [i \in 1..10 |-> IF i % 2 = 1 THEN TreeB ELSE TreeC],
     Weights |-> <<10, -5, 3, 0, 20, -10, 1, 2, 7, -3>>]

C6_PruneKeepsPositive ==
    /\ last.op = "Prune" =>
        /\ last.n = Len(last.pre.Weights) - Cardinality(Kept(last.pre))
        /\ Len(forest.Trees) = Cardinality(Kept(last.pre))
        /\ Len(forest.Weights) = Cardinality(Kept(last.pre))
        /\ \A j \in 1..Len(forest.Weights) :
              /\ forest.Weights[j] = last.pre.Weights[KeptAt(last.pre, j)]
              /\ forest.Trees[j] = last.pre.Trees[KeptAt(last.pre, j)]
              /\ forest.Weights[j] > 0
        /\ forest.Base = last.pre.Base
    /\ ForestPruneNonPositive(ScenarioC).removed = 4
    /\ ForestPruneNonPositive(ScenarioC).forest.Weights = <<10, 3, 20, 1, 2, 7>>

C6_Witness ==
    /\ last.op = "Prune"
    /\ Len(last.pre.Weights) = 3
    /\ last.pre.Weights[1] > 0
    /\ last.pre.Weights[2] = 0
    /\ last.pre.Weights[3] > 0
    /\ last.pre.Trees[1] # last.pre.Trees[3]
    /\ last.n = 1

\* C7: add_weights(v, s) with len(v) == k adds v[i]*s to Weights[i] and
\* leaves Trees and Base alone; with len(v) # k it is a fatal error and
\* nothing is updated.
C7_AddWeights ==
    last.op = "AddWeights" =>
        IF Len(last.v) = Len(last.pre.Trees)
        THEN /\ ~fatal
             /\ Len(forest.Weights) = Len(last.pre.Weights)
             /\ \A i \in 1..Len(forest.Weights) :
                   forest.Weights[i] =
                       last.pre.Weights[i] + last.v[i] * last.arg
             /\ forest.Trees = last.pre.Trees
             /\ forest.Base = last.pre.Base
        ELSE fatal /\ forest = last.pre

C7_Witness ==
    /\ last.op = "AddWeights"
    /\ ~fatal
    /\ Len(last.v) = 3
    /\ last.v[1] # last.v[2]
    /\ last.arg = 2
    /\ forest.Weights # last.pre.Weights

C7_WitnessFatal ==
    /\ last.op = "AddWeights"
    /\ fatal
    /\ Len(last.v) = Len(last.pre.Trees) + 1

\* the leaves of a tree, each with the comparisons on the way to it
RECURSIVE LeafPaths(_)
LeafPaths(t) ==
    IF t.Leaf THEN {[conds |-> <<>>, params |-> t.Params]}
    ELSE {[conds |-> <<[feat |-> t.Feature, thr |-> t.Threshold,
                        less |-> TRUE]>> \o l.conds,
           params |-> l.params] : l \in LeafPaths(t.LessThan)}
         \cup
         {[conds |-> <<[feat |-> t.Feature, thr |-> t.Threshold,
                        less |-> FALSE]>> \o l.conds,
           params |-> l.params] : l \in LeafPaths(t.GreaterEqual)}

\* x satisfies every comparison on the way to the leaf: strictly below the
\* threshold where the path goes to LessThan, at or above it otherwise
Reaches(x, leaf) ==
    \A k \in 1..Len(leaf.conds) :
        LET c == leaf.conds[k]
        IN IF c.less THEN x[c.feat] < c.thr ELSE x[c.feat] >= c.thr

\* C8: on a well-formed tree Find terminates and returns the Params of the
\* one leaf whose path the features satisfy (equal to the threshold goes to
\* GreaterEqual); the result has length D.
C8_FindReachesLeaf ==
    /\ [](desc.active =>
            /\ desc.steps <= Depth(desc.tree)
            /\ Cardinality({l \in LeafPaths(desc.tree) :
                               Reaches(desc.x, l)}) = 1
            /\ (desc.done =>
                  /\ \A l \in LeafPaths(desc.tree) :
                        Reaches(desc.x, l) => desc.out = l.params
                  /\ Len(desc.out) = ParamDim
                  /\ desc.out = Find(desc.tree, desc.x)))
    /\ ((desc.active /\ ~desc.done) ~> desc.done)

C8_Witness ==
    /\ desc.done
    /\ desc.steps = 2
    /\ ~desc.tree.Leaf
    /\ desc.x[desc.tree.Feature] = desc.tree.Threshold

\* ----------------------------------------------------------- claim C9
\* the sum of grads[lo..hi], recomputed from zero
RECURSIVE ScratchSum(_, _, _)
ScratchSum(grads, lo, hi) ==
    IF hi < lo THEN Zeros(Len(grads[1]))
    ELSE VecAdd(ScratchSum(grads, lo, hi - 1), grads[hi])

\* sum of squared distances to the mean over grads[lo..hi], times n*n
RECURSIVE ScratchDevSq(_, _, _, _)
ScratchDevSq(grads, lo, hi, i) ==
    IF i > hi THEN 0
    ELSE LET n == hi - lo + 1
             sum == ScratchSum(grads, lo, hi)
             diff == [j \in 1..Len(sum) |-> n * grads[i][j] - sum[j]]
         IN Dot(diff, diff) + ScratchDevSq(grads, lo, hi, i + 1)

\* the residual of one side: sum of squared distances to the side's mean
ScratchError(grads, lo, hi) ==
    LET n == hi - lo + 1
    IN IF n = 0 THEN FInt(0)
       ELSE FNum(ScratchDevSq(grads, lo, hi, lo), n * n)

\* |sum|^2 / n of one side, an empty side counting 0
ScratchMeanTerm(grads, lo, hi) ==
    LET n == hi - lo + 1
        sum == ScratchSum(grads, lo, hi)
    IN IF n = 0 THEN FInt(0) ELSE FNum(Dot(sum, sum), n)

\* the quality of the partition left = grads[1..k], right = grads[k+1..n]
ScratchQuality(alg, grads, k) ==
    LET n == Len(grads)
        ls == ScratchSum(grads, 1, k)
        rs == ScratchSum(grads, k + 1, n)
    IN CASE alg = "sum" -> FInt(Dot(ls, ls) + Dot(rs, rs))
         [] alg = "mean" ->
              FAdd(ScratchMeanTerm(grads, 1, k),
                   ScratchMeanTerm(grads, k + 1, n))
         [] alg = "mse" ->
              FNeg(FAdd(ScratchError(grads, 1, k),
                        ScratchError(grads, k + 1, n)))
         [] alg = "balancedsum" ->
              FInt((Dot(ls, ls) + Dot(rs, rs)) * k * (n - k))
         [] alg = "stddev" ->
              FNegSqrtSum(FMulInt(ScratchError(grads, 1, k), k),
                          FMulInt(ScratchError(grads, k + 1, n), n - k))
         [] alg = "sign" -> FInt(AbsSum(ls) + AbsSum(rs))

\* gradients (1,2),(3,2),(5,1) and their MSE qualities at k = 0..3
MSEExample == <<(<<1, 2>>), (<<3, 2>>), (<<5, 1>>)>>
MSEExampleQualities == <<FNum(-26, 3), FNum(-5, 2), FNum(-2, 1), FNum(-26, 3)>>

\* C9: for every tracker variant and sample sequence, after Reset and k
\* MoveToLeft calls (0 <= k <= n) Quality() equals the quality computed
\* from scratch over the partition; the MSE qualities of (1,2),(3,2),(5,1)
\* are -26/3, -5/2, -2, -26/3.
C9_QualityMatchesScratch ==
    trk.alg # "none" =>
        /\ FEq(Quality(trk), ScratchQuality(trk.alg, trk.samples, trk.moved))
        /\ (trk.alg = "mse" /\ trk.samples = MSEExample =>
               FEq(Quality(trk), MSEExampleQualities[trk.moved + 1]))

\* the same with the mean tracker left out where a side is empty
C9_MatchesWhereDefined ==
    (/\ trk.alg # "none"
     /\ ~(/\ trk.alg = "mean"
          /\ trk.moved \in {0, Len(trk.samples)})) =>
        /\ FEq(Quality(trk), ScratchQuality(trk.alg, trk.samples, trk.moved))
        /\ (trk.alg = "mse" /\ trk.samples = MSEExample =>
               FEq(Quality(trk), MSEExampleQualities[trk.moved + 1]))

\* ------------------------------------------------------------------ C10
\* the branch nodes of the tree build returned
BranchPaths == {p \in DOMAIN bnodes : ~bnodes[p].Leaf}

\* the number of samples the branch at p sent to its child c
ChildSize(p, c) == Len(bnodes[Append(p, c)].data)

\* C10: in every tree build returns, each child of a branch node holds at
\* least MinLeaf samples and at least the MinLeafFrac share of the samples
\* of the branch; only a node that was never split may hold fewer.
C10_ChildrenHoldMinLeaf ==
    bpc = "done" =>
        \A p \in BranchPaths : \A c \in {0, 1} :
            /\ ChildSize(p, c) >= bcfg.MinLeaf
            /\ ChildSize(p, c) * bcfg.MinLeafFrac.den
                   >= bcfg.MinLeafFrac.num * Len(bnodes[p].data)

\* what the builder does guarantee: each child holds at least MinLeaf
\* samples and at least the share rounded down to a whole number
C10_ChildrenHoldTruncatedShare ==
    bpc = "done" =>
        \A p \in BranchPaths : \A c \in {0, 1} :
            /\ ChildSize(p, c) >= bcfg.MinLeaf
            /\ ChildSize(p, c) >=
                   (bcfg.MinLeafFrac.num * Len(bnodes[p].data))
                       \div bcfg.MinLeafFrac.den

\* a branch of three samples built with MinLeafFrac = 1/2
C10_OddBranch ==
    /\ bpc = "done"
    /\ bcfg.MinLeafFrac = Frac(1, 2)
    /\ \E p \in BranchPaths : Len(bnodes[p].data) = 3

\* ------------------------------------------------------------------ C11
\* the leaves of the tree build returned
BuiltLeaves == {p \in DOMAIN bnodes : bnodes[p].Leaf}

\* the sum of the gradients of the samples routed to the leaf at p
LeafGradSum(p) ==
    SumGradients([i \in 1..Len(bnodes[p].data) |->
                     bdata[bnodes[p].data[i]].grad])

SumLike == bcfg.Algorithm \in {"sum", "balancedsum"}

\* C11: a tree built with SumAlgorithm or BalancedSumAlgorithm on N samples
\* has in every leaf the sum of the leaf's gradients divided by N, the
\* division by N being the only scaling of the leaf.
C11_LeafIsSumOverN ==
    (bpc = "done" /\ SumLike) =>
        \A p \in BuiltLeaves : \A j \in 1..ParamDim :
            FEq(bnodes[p].Params[j], FNum(LeafGradSum(p)[j], Len(bdata)))

\* what the builder computes: the leaf is scaled by 1/N in leafParams and
\* once more by 1/len(data) in buildRecursive
C11_LeafIsScaledTwice ==
    (bpc = "done" /\ SumLike) =>
        \A p \in BuiltLeaves : \A j \in 1..ParamDim :
            FEq(bnodes[p].Params[j],
                FNum(LeafGradSum(p)[j],
                     Len(bdata) * Len(bnodes[p].data)))

\* ------------------------------------------------------------------ C12
SignValues == {FInt(-1), FInt(0), FInt(1)}

\* s has the branches of t, and in every leaf the signs of t's leaf
RECURSIVE IsSignOf(_, _)
IsSignOf(s, t) ==
    IF t.Leaf
    THEN /\ s.Leaf
         /\ Len(s.Params) = Len(t.Params)
         /\ \A j \in 1..Len(t.Params) :
                /\ s.Params[j] \in SignValues
                /\ s.Params[j] = FInt(Sign(t.Params[j].num))
    ELSE /\ ~s.Leaf
         /\ s.Feature = t.Feature
         /\ s.Threshold = t.Threshold
         /\ IsSignOf(s.LessThan, t.LessThan)
         /\ IsSignOf(s.GreaterEqual, t.GreaterEqual)

C12_WitnessSignBuild ==
    /\ bpc = "done"
    /\ bcfg.Algorithm = "sign"
    /\ \E p \in BuiltLeaves : \E j \in 1..ParamDim :
           LeafGradSum(p)[j] = 0 /\ bnodes[p].Params[j] = FInt(0)

\* ------------------------------------------------------------------ C13
\* the parameter indices the whitelist leaves out
NotWhitelisted ==
    {j \in 1..ParamDim :
        \A k \in 1..Len(bcfg.ParamWhitelist.idx) :
            bcfg.ParamWhitelist.idx[k] # j}

Masked == ~bcfg.ParamWhitelist.nil /\ bpc \in {"running", "done"}

\* C13: with a non-nil ParamWhitelist the gradients are masked once, when
\* build starts and before any buildRecursive call; every leaf of the
\* returned tree is exactly 0 at each index outside the whitelist; and
\* masking the masked gradients again changes nothing.
C13_WhitelistMasksLeaves ==
    /\ [](Masked =>
            /\ \A i \in 1..Len(bdata) : \A j \in NotWhitelisted :
                   bdata[i].grad[j] = 0
            /\ MaskGradients(bcfg, bdata) = bdata)
    /\ []((Masked /\ bpc = "done") =>
            \A p \in BuiltLeaves : \A j \in NotWhitelisted :
                bnodes[p].Params[j].kind = "num"
                    /\ bnodes[p].Params[j].num = 0)
    /\ [][bdata' # bdata => (bpc = "ready" /\ bstack = <<>>)]_vars

\* a build with the whitelist {0} has returned a tree whose samples had a
\* non-zero second gradient component before the masking
C13_Witness ==
    /\ bpc = "done"
    /\ bcfg.ParamWhitelist = Whitelist(<<1>>)
    /\ \E i \in 1..Len(bdata) :
           bdata[i].feat = SamplePool[2].feat /\ bdata[i].grad = <<3, 0>>
    /\ \E p \in BuiltLeaves : bnodes[p].Params[1].num # 0

\* ------------------------------------------------------------------ C14
\* the features the search of the current node was given
TriedFeatures == {bsearch.tried[i] : i \in 1..Len(bsearch.tried)}

\* the reduction of the tried features' splits in ascending feature order
RECURSIVE ReduceAscending(_, _)
ReduceAscending(f, best) ==
    IF f > NumFeat THEN best
    ELSE ReduceAscending(f + 1,
             IF f \in TriedFeatures
             THEN BetterSplit(best, OptimalSplit(bcfg, bdata, bsearch.data, f))
             ELSE best)

SearchOver == bsearch.active /\ bsearch.closed /\ bsearch.splitChan = <<>>

\* C14: the split a node ends up with is fixed by the node's samples and
\* the set of features tried, whatever the order in which the workers
\* deliver their results: it is the split the reduction in ascending feature
\* order gives, also when several features tie for the highest quality.
C14_SplitIndependentOfArrival ==
    SearchOver =>
        LET ref == ReduceAscending(1, NilSplit)
        IN /\ bsearch.bestSplit.nil = ref.nil
           /\ bsearch.bestSplit.Feature = ref.Feature
           /\ bsearch.bestSplit.Threshold = ref.Threshold

\* what the reduction does guarantee: the split has the highest quality of
\* the splits the tried features offer
C14_SplitHasBestQuality ==
    SearchOver =>
        \A f \in TriedFeatures :
            LET s == OptimalSplit(bcfg, bdata, bsearch.data, f)
            IN ~s.nil =>
                   /\ ~bsearch.bestSplit.nil
                   /\ ~FGreater(s.Quality, bsearch.bestSplit.Quality)

\* ------------------------------------------------------------------ C15
\* C15: build on an empty sample list panics and never returns a tree;
\* build on a non-empty list never hands an empty list to a recursive
\* call, so it never panics for lack of data.
C15_EmptyPanicsNonEmptyNever ==
    /\ [](Len(bdata) = 0 =>
            /\ bpc # "done"
            /\ bnodes = <<>>
            /\ ~bsearch.active)
    /\ [][(Len(bdata) = 0 /\ bpc = "running") => bpc' = "panic"]_vars
    /\ [](Len(bdata) > 0 =>
            /\ bpc # "panic"
            /\ \A k \in 1..Len(bstack) : Len(bstack[k].data) > 0
            /\ \A p \in DOMAIN bnodes : Len(bnodes[p].data) > 0)

\* the panic of a build without data
C15_Witness == bpc = "panic" /\ bdata = <<>>

\* a build with data and MinLeaf = 0 that split a node and returned
C15_WitnessSplit ==
    /\ bpc = "done"
    /\ bcfg.MinLeaf = 0
    /\ bcfg.MinLeafFrac.num = 0
    /\ BranchPaths # {}

\* ------------------------------------------------------------------ C16
\* min_leaf_effective = max(MinLeaf, ceil(MinLeafFrac * n))
MinLeafEffective(n) ==
    Max(bcfg.MinLeaf,
        (bcfg.MinLeafFrac.num * n + bcfg.MinLeafFrac.den - 1)
            \div bcfg.MinLeafFrac.den)

\* the number of the node's samples whose feature f is below v
Below(f, v) ==
    Cardinality({i \in 1..Len(bsearch.data) :
                    bdata[bsearch.data[i]].feat[f] < v})

\* no boundary between distinct values of a tried feature leaves at least
\* minLeaf samples on both sides
NoFeasibleSplit(minLeaf) ==
    \A f \in TriedFeatures : \A i \in 1..Len(bsearch.data) :
        LET left == Below(f, bdata[bsearch.data[i]].feat[f])
        IN \/ left = 0
           \/ left < minLeaf
           \/ Len(bsearch.data) - left < minLeaf

\* the node of the finished search becomes a leaf holding params, and
\* nothing else is built for it
BecomesLeaf(params) ==
    /\ bpc' = bpc
    /\ bstack' = bstack
    /\ bsearch.path \in DOMAIN bnodes'
    /\ bnodes'[bsearch.path].Leaf
    /\ bnodes'[bsearch.path].data = bsearch.data
    /\ Len(bnodes'[bsearch.path].Params) = Len(params)
    /\ \A j \in 1..Len(params) :
           FEq(bnodes'[bsearch.path].Params[j], params[j])

NodeGrads == [i \in 1..Len(bsearch.data) |-> bdata[bsearch.data[i]].grad]

\* C16: when no tried feature offers a boundary between distinct values
\* with min_leaf_effective samples on both sides, the builder does not fail
\* and the node becomes a leaf holding the algorithm's leaf formula over
\* the node's samples, whatever depth remains.
C16_NoSplitGivesLeaf ==
    [][(SearchOver /\ NoFeasibleSplit(MinLeafEffective(Len(bsearch.data))))
         => BecomesLeaf(LeafParams(bcfg.Algorithm, NodeGrads, Len(bdata)))]_vars

\* what the builder does: with the minimum it computes, and the leaf as
\* buildRecursive(data, allData, 0) returns it
C16_NoSplitGivesBuiltLeaf ==
    [][(SearchOver /\ NoFeasibleSplit(MinLeafOf(bcfg, Len(bsearch.data))))
         => BecomesLeaf(BuildLeaf(bcfg, bdata, bsearch.data))]_vars

\* ------------------------------------------------------------------ C17
\* t(s), the first output of the tree on a sample, and V(s), the first
\* output of the value forest as it was before the call
TreeOut(s) == FindFeatureSource(jdg.t, s.feat)[1]
ValueOut(s) == ApplyFeatureSource(jdg.pre, s.feat).out[1]

\* sum over the first n samples of t(s)^2, and of t(s) * (target - V(s))
RECURSIVE SumSquaredOut(_)
SumSquaredOut(n) ==
    IF n = 0 THEN 0
    ELSE SumSquaredOut(n - 1) + TreeOut(jdg.data[n]) * TreeOut(jdg.data[n])

RECURSIVE SumOutResidual(_)
SumOutResidual(n) ==
    IF n = 0 THEN 0
    ELSE SumOutResidual(n - 1)
             + TreeOut(jdg.data[n])
                   * (jdg.data[n].adv - ValueOut(jdg.data[n]))

C17_WitnessFraction ==
    /\ jdg.pc = "done"
    /\ Len(jdg.ValueFunc.Trees) = 2
    /\ SumSquaredOut(Len(jdg.data)) > 1
    /\ jdg.out.num # 0

\* ------------------------------------------------------------------ C18
ZeroGradient == [j \in 1..Len(LogProbGrad) |-> FInt(0)]

\* 1 - eps and 1 + eps for the clipping parameter in use
ClipLow == LET e == EpsilonOf(ppo.Epsilon) IN Frac(e.den - e.num, e.den)
ClipHigh == LET e == EpsilonOf(ppo.Epsilon) IN Frac(e.den + e.num, e.den)

\* the PPO contract on the gradient grad of a sample
ClippedAsPPO(sample, grad) ==
    /\ (sample.adv > 0 /\ FracGreater(sample.ratio, ClipHigh))
           => grad = ZeroGradient
    /\ (sample.adv < 0 /\ FracLess(sample.ratio, ClipLow))
           => grad = ZeroGradient
    /\ (~FracLess(sample.ratio, ClipLow)
            /\ ~FracGreater(sample.ratio, ClipHigh))
           => grad = RatioGradient(sample)

\* C18: without a regulariser, the gradient of a sample handed to the
\* tree builder is the zero vector when A > 0 and r > 1 + eps, the zero
\* vector when A < 0 and r < 1 - eps, and the gradient of r * A whenever
\* 1 - eps <= r <= 1 + eps.
C18_ClippedGradientIsZero ==
    \A i \in 1..Len(ppo.gradSamples) :
        ClippedAsPPO(ppo.data[i], ppo.gradSamples[i])

\* the same contract holds of the gradient PPO.objective computes
C18_ObjectiveGradientClips ==
    \A i \in 1..Len(ppo.data) :
        ClippedAsPPO(ppo.data[i], ObjectiveGradient(ppo.Epsilon, ppo.data[i]))

\* PPO.gradient keeps the positive-advantage half of the contract
C18_PositiveAdvantageClips ==
    \A i \in 1..Len(ppo.gradSamples) :
        /\ (ppo.data[i].adv > 0 /\ FracGreater(ppo.data[i].ratio, ClipHigh))
               => ppo.gradSamples[i] = ZeroGradient
        /\ (~FracLess(ppo.data[i].ratio, ClipLow)
                /\ ~FracGreater(ppo.data[i].ratio, ClipHigh))
               => ppo.gradSamples[i] = RatioGradient(ppo.data[i])

\* ------------------------------------------------------------------ C19
\* sum over the first n samples of dot(g_i, Trees[t].Find(features_i))
RECURSIVE DotSum(_, _)
DotSum(t, n) ==
    IF n = 0 THEN 0
    ELSE DotSum(t, n - 1)
             + Dot(wgr.g[n].grad, Find(wgr.trees[t], wgr.g[n].feat))

\* the workers that hold an index and are about to write grad[index]
Writers == {w \in 1..wgr.procs : wgr.wpc[w] = "write"}

\* C19: weightGradient returns one entry per tree, entry t being 1/n times
\* the sum over the n samples of dot(g_i, Trees[t].Find(features_i)); when
\* it returns every tree index has been processed exactly once; and no two
\* workers ever write the same entry.
C19_WeightGradient ==
    /\ Len(wgr.grad) = Len(wgr.trees)
    /\ \A t \in 1..Len(wgr.trees) : wgr.written[t] <= 1
    /\ \A w1, w2 \in Writers : w1 # w2 => wgr.windex[w1] # wgr.windex[w2]
    /\ \A w \in Writers : wgr.written[wgr.windex[w]] = 0
    /\ wgr.pc = "returned" =>
           \A t \in 1..Len(wgr.trees) :
               /\ wgr.written[t] = 1
               /\ FEq(wgr.grad[t], FNum(DotSum(t, Len(wgr.g)), Len(wgr.g)))

\* a call with two workers, three trees and two samples has returned, one
\* entry being a fraction
C19_Witness ==
    /\ wgr.pc = "returned"
    /\ wgr.procs = 2
    /\ Len(wgr.trees) = 3
    /\ Len(wgr.g) = 2
    /\ \E t \in 1..3 : wgr.grad[t].num % 2 # 0

\* two workers are about to write at the same time
C19_WitnessTwoWriters == Cardinality(Writers) = 2

\* ------------------------------------------------------------------ C20
\* what the input holds for a lane at a timestep
InputEntry(lane, timestep) ==
    [action |-> PackedEntry(lane, timestep).action,
     actionParams |-> PackedEntry(lane, timestep).actionParams,
     advantage |-> Advantages(lane, timestep)]

\* the input in stream order: by timestep, then by lane, present lanes only
RECURSIVE InputFrom(_)
InputFrom(timestep) ==
    IF timestep > Len(strm.tape) THEN <<>>
    ELSE (IF strm.tape[timestep][1] THEN <<InputEntry(1, timestep)>>
          ELSE <<>>)
         \o (IF strm.tape[timestep][2] THEN <<InputEntry(2, timestep)>>
             ELSE <<>>)
         \o InputFrom(timestep + 1)

\* the samples of out are those of the input, one for one and in order
CarriesInput(out) ==
    /\ Len(out) = Len(InputFrom(1))
    /\ \A k \in 1..Len(out) :
           /\ out[k].action = InputFrom(1)[k].action
           /\ out[k].actionParams = InputFrom(1)[k].actionParams
           /\ out[k].advantage = InputFrom(1)[k].advantage

ProducedSplits ==
    {bsearch.splitChan[k] : k \in 1..Len(bsearch.splitChan)}
        \cup {bsearch.bestSplit}

SeqSet(s) == {s[k] : k \in 1..Len(s)}

\* LeftSamples and RightSamples are non-empty and hold every sample of the
\* node exactly once
Partitions(split, data) ==
    /\ split.LeftSamples # <<>>
    /\ split.RightSamples # <<>>
    /\ SeqSet(split.LeftSamples) \cap SeqSet(split.RightSamples) = {}
    /\ SeqSet(split.LeftSamples) \cup SeqSet(split.RightSamples)
           = SeqSet(data)
    /\ Len(split.LeftSamples) + Len(split.RightSamples) = Len(data)

FeatureOf(i, split) == bdata[i].feat[split.Feature]

LargestLeft(split) ==
    CHOOSE v \in {FeatureOf(i, split) : i \in SeqSet(split.LeftSamples)} :
        \A i \in SeqSet(split.LeftSamples) : FeatureOf(i, split) <= v

SmallestRight(split) ==
    CHOOSE v \in {FeatureOf(i, split) : i \in SeqSet(split.RightSamples)} :
        \A i \in SeqSet(split.RightSamples) : FeatureOf(i, split) >= v

\* C21: every split optimalSplit produces has LeftSamples and RightSamples
\* non-empty, disjoint and together the input, every left sample's feature
\* value strictly below Threshold, every right sample's at least Threshold,
\* and Threshold halfway between the largest left value and the smallest
\* right value.
C21_SplitSeparatesAtMidpoint ==
    bsearch.active =>
        \A split \in ProducedSplits :
            ~split.nil =>
                /\ Partitions(split, bsearch.data)
                /\ \A i \in SeqSet(split.LeftSamples) :
                       FeatureOf(i, split) < split.Threshold
                /\ \A i \in SeqSet(split.RightSamples) :
                       FeatureOf(i, split) >= split.Threshold
                /\ 2 * split.Threshold
                       = LargestLeft(split) + SmallestRight(split)

\* what holds of every split: it partitions the node's samples, the left
\* values lie below the right ones, and Threshold is the float64 midpoint
\* of the two values at the cut, which lies between them, ends included
C21_SplitPartitions ==
    bsearch.active =>
        \A split \in ProducedSplits :
            ~split.nil =>
                /\ Partitions(split, bsearch.data)
                /\ LargestLeft(split) < SmallestRight(split)
                /\ split.Threshold
                       = Midpoint(LargestLeft(split), SmallestRight(split))
                /\ LargestLeft(split) <= split.Threshold
                /\ split.Threshold <= SmallestRight(split)

\* where the sum of the two values at the cut is a float64, the split is as
\* the claim says
C21_ExactMidpointSeparates ==
    bsearch.active =>
        \A split \in ProducedSplits :
            (~split.nil
                 /\ (LargestLeft(split) + SmallestRight(split)) % 2 = 0) =>
                /\ \A i \in SeqSet(split.LeftSamples) :
                       FeatureOf(i, split) < split.Threshold
                /\ \A i \in SeqSet(split.RightSamples) :
                       FeatureOf(i, split) >= split.Threshold
                /\ 2 * split.Threshold
                       = LargestLeft(split) + SmallestRight(split)

\* ------------------------------------------------------------------ C22
\* both sides of the split hold at least minLeaf samples
SidesHold(split, minLeaf) ==
    /\ Len(split.LeftSamples) >= minLeaf
    /\ Len(split.RightSamples) >= minLeaf

\* C22: optimalSplit takes a boundary of a node with n samples as a split
\* only when both sides hold at least max(MinLeaf, ceil(MinLeafFrac * n))
\* samples, the fraction being rounded up.
C22_SplitSidesHoldCeiling ==
    bsearch.active =>
        \A split \in ProducedSplits :
            ~split.nil =>
                SidesHold(split, MinLeafEffective(Len(bsearch.data)))

\* what optimalSplit enforces: the fraction rounded down
C22_SplitSidesHoldTruncated ==
    bsearch.active =>
        \A split \in ProducedSplits :
            ~split.nil =>
                SidesHold(split, MinLeafOf(bcfg, Len(bsearch.data)))

\* ------------------------------------------------------------------ C23
\* Lsum.Lsum/Ln + Rsum.Rsum/Rn, a side with count 0 contributing 0
MeanQualitySkipping(t) ==
    FAdd(IF t.leftCount = 0 THEN FInt(0)
         ELSE FNum(Dot(t.leftSum, t.leftSum), t.leftCount),
         IF t.rightCount = 0 THEN FInt(0)
         ELSE FNum(Dot(t.rightSum, t.rightSum), t.rightCount))

\* C23: the mean tracker's Quality() is Lsum.Lsum/Ln + Rsum.Rsum/Rn with a
\* side of count 0 skipped: right after Reset and after every sample has
\* been moved left it is the finite value of the non-empty side alone.
C23_MeanQualitySkipsEmptySide ==
    trk.alg = "mean" =>
        /\ Quality(trk).kind = "num"
        /\ FEq(Quality(trk), MeanQualitySkipping(trk))

\* what the mean tracker returns: the claimed value while both sides hold
\* samples, and NaN as soon as a side is empty
C23_MeanQualityNaNOnEmptySide ==
    trk.alg = "mean" =>
        IF trk.leftCount = 0 \/ trk.rightCount = 0
        THEN Quality(trk).kind = "nan"
        ELSE FEq(Quality(trk), MeanQualitySkipping(trk))

\* ------------------------------------------------------------------ C24
\* the features whose results the workers have sent, in sending order
SentFeatures == [k \in 1..Len(bsearch.sent) |-> bsearch.sent[k][2]]

\* the workers that are evaluating a feature
Evaluating == {w \in 1..bcfg.procs : bsearch.wpc[w] = "send"}

\* the features of s, each as often as it occurs
Occurrences(s, f) == Cardinality({k \in 1..Len(s) : s[k] = f})

\* every feature put on the queue is waiting, held by one worker, or has
\* had its one result sent
EachFeatureOnce ==
    \A f \in 1..NumFeat :
        Occurrences(bsearch.tried, f)
            = Occurrences(bsearch.featureChan, f)
                + Cardinality({w \in Evaluating : bsearch.wfeat[w] = f})
                + Occurrences(SentFeatures, f)

\* C24: in a node's split search every feature on the work queue is
\* evaluated by one worker and gives one result on splitChan; splitChan is
\* closed only after every worker has finished; a worker never finds
\* splitChan full; and the reducing loop ends, having taken every result,
\* for every GOMAXPROCS >= 1 and every interleaving.
C24_SearchDeliversEveryResult ==
    /\ [](bsearch.active =>
              /\ EachFeatureOnce
              /\ Len(bsearch.sent) = bsearch.reduced + Len(bsearch.splitChan)
              /\ (bsearch.closed =>
                      \A w \in 1..bcfg.procs : bsearch.wpc[w] = "done")
              /\ (Evaluating # {} => Len(bsearch.splitChan) < NumFeat))
    /\ [](SearchOver =>
              /\ bsearch.reduced = Len(bsearch.tried)
              /\ \A f \in TriedFeatures : Occurrences(SentFeatures, f) = 1)
    /\ (bsearch.active ~> ~bsearch.active)

\* a search over both features has ended with results of two workers, one
\* of them nil
C24_Witness ==
    /\ SearchOver
    /\ bcfg.procs >= 2
    /\ Len(bsearch.tried) = 2
    /\ bsearch.reduced = 2
    /\ bsearch.sent[1][1] # bsearch.sent[2][1]
    /\ OptimalSplit(bcfg, bdata, bsearch.data, 2).nil

\* ------------------------------------------------------------------ C25
\* C25: while the workers of a node's split search run, the node's sample
\* list keeps its order and every sample keeps its gradient: optimalSplit
\* sorts a slice of its own and the tracker sums are copies, so list and
\* gradients are after the search what they were before it.
C25_SearchLeavesSamplesAlone ==
    [][(bsearch.active /\ bsearch'.active) =>
           /\ bsearch'.data = bsearch.data
           /\ bdata' = bdata]_vars

\* two workers have each sent a result of a search whose sample list is
\* not in the order of a feature it was searched on
C25_Witness ==
    /\ SearchOver
    /\ Len(bsearch.sent) = 2
    /\ bsearch.sent[1][1] # bsearch.sent[2][1]
    /\ \E f \in TriedFeatures :
           SortByFeature(bdata, bsearch.data, f) # bsearch.data

\* ------------------------------------------------------------------ C26
\* buildRecursive is about to be entered on a non-empty sample list
EntersNode ==
    /\ bpc = "running"
    /\ ~bsearch.active
    /\ bstack # <<>>
    /\ Len(Head(bstack).data) > 0

\* the node at path is a leaf once the step is taken
LeafAfter(path) == path \in DOMAIN bnodes' /\ bnodes'[path].Leaf

\* C26: for every non-empty sample set and every MaxDepth >= 0 build
\* returns, and the tree has at most MaxDepth branch nodes on any path from
\* the root to a leaf; a node becomes a leaf exactly when no depth remains,
\* it holds one sample, or the search finds no feasible split; and MaxDepth
\* = 0 gives a single leaf.
C26_BuildTerminatesWithinDepth ==
    /\ ((bpc = "ready" /\ bdata # <<>>) ~> (bpc = "done"))
    /\ [](bpc = "done" =>
              /\ Depth(BuiltTree(bnodes, <<>>)) <= bcfg.MaxDepth
              /\ (bcfg.MaxDepth = 0 => BuiltTree(bnodes, <<>>).Leaf))
    /\ [](\A k \in 1..Len(bstack) :
              bstack[k].depth = bcfg.MaxDepth - Len(bstack[k].path))
    /\ [][EntersNode =>
              (LeafAfter(Head(bstack).path)
                   <=> (Head(bstack).depth = 0
                            \/ Len(Head(bstack).data) = 1))]_vars
    /\ [][(EntersNode /\ ~LeafAfter(Head(bstack).path)) =>
              bsearch'.active]_vars
    /\ [][SearchOver =>
              (LeafAfter(bsearch.path)
                   <=> NoFeasibleSplit(MinLeafOf(bcfg,
                                                 Len(bsearch.data))))]_vars

\* build has returned a tree as deep as MaxDepth = 2 allows, with a leaf
\* of several samples higher up, where depth remained
C26_Witness ==
    /\ bpc = "done"
    /\ bcfg.MaxDepth = 2
    /\ Depth(BuiltTree(bnodes, <<>>)) = 2
    /\ \E p \in DOMAIN bnodes :
           /\ bnodes[p].Leaf
           /\ Len(p) = 1
           /\ Len(bnodes[p].data) > 1

\* build has returned a single leaf for MaxDepth = 0 and several samples
C26_WitnessDepthZero ==
    /\ bpc = "done"
    /\ bcfg.MaxDepth = 0
    /\ Len(bdata) > 1
    /\ bnodes[<<>>].Leaf

\* ------------------------------------------------------------------ C28
\* the leaves of the tree build returned
BuiltLeafPaths == {p \in DOMAIN bnodes : bnodes[p].Leaf}

\* the node at path as Tree.Find sees it, its children named by their paths
RouteNode(path) ==
    [Feature |-> bnodes[path].Feature, Threshold |-> bnodes[path].Threshold,
     LessThan |-> Append(path, 0), GreaterEqual |-> Append(path, 1)]

\* the leaf Tree.Find reaches from the node at path for the features x
RECURSIVE FoundLeaf(_, _)
FoundLeaf(path, x) ==
    IF bnodes[path].Leaf THEN path
    ELSE FoundLeaf(FindChild(RouteNode(path), x), x)

\* the sample lists behind the leaves are pairwise disjoint and together
\* the sample set
LeavesPartition ==
    /\ \A p, q \in BuiltLeafPaths :
           p # q => SeqSet(bnodes[p].data) \cap SeqSet(bnodes[q].data) = {}
    /\ UNION {SeqSet(bnodes[p].data) : p \in BuiltLeafPaths} = 1..Len(bdata)

\* some branch on the way of sample i has its Threshold on the sample's
\* own feature value
OnThreshold(i) ==
    \E p \in DOMAIN bnodes :
        /\ ~bnodes[p].Leaf
        /\ i \in SeqSet(bnodes[p].data)
        /\ bdata[i].feat[bnodes[p].Feature] = bnodes[p].Threshold

\* C28: in the tree build returns for the sample set S, Tree.Find takes
\* every training sample to the leaf whose params were computed from the
\* subset holding that sample, and the subsets behind the leaves are
\* pairwise disjoint and together S.
C28_FindReachesTrainingLeaf ==
    bpc = "done" =>
        /\ LeavesPartition
        /\ \A i \in 1..Len(bdata) :
               /\ i \in SeqSet(bnodes[FoundLeaf(<<>>, bdata[i].feat)].data)
               /\ Find(BuiltTree(bnodes, <<>>), bdata[i].feat)
                      = bnodes[FoundLeaf(<<>>, bdata[i].feat)].Params

\* what holds: the leaves partition S, and Find takes a sample to its own
\* leaf unless a Threshold on its way equals its feature value
C28_FindReachesLeafOffThreshold ==
    bpc = "done" =>
        /\ LeavesPartition
        /\ \A i \in 1..Len(bdata) :
               /\ (~OnThreshold(i) =>
                       i \in SeqSet(bnodes[FoundLeaf(<<>>,
                                                     bdata[i].feat)].data))
               /\ Find(BuiltTree(bnodes, <<>>), bdata[i].feat)
                      = bnodes[FoundLeaf(<<>>, bdata[i].feat)].Params

\* ------------------------------------------------------------------ C29
\* the last n trees the value forest has held, in the order they came
LastAdded(n) ==
    SubSeq(vloop.hist, Len(vloop.hist) - n + 1, Len(vloop.hist))

\* an iteration of the loop has just ended
IterationDone == vloop.pc \in {"decay", "done"} /\ vloop.i > 0

\* C29: with MaxTrees = M > 0 and a value forest of at most M trees at the
\* start, the forest has at most M trees after every iteration (decayForest,
\* then Add), RemoveFirst is never called on a forest without trees, and the
\* trees kept are the most recently added ones in the order they were
\* added; with MaxTrees <= 0 no tree is ever removed.
C29_ValueForestKeepsNewest ==
    /\ vloop.pc # "panic"
    /\ Len(vloop.forest.Trees) = Len(vloop.forest.Weights)
    /\ vloop.forest.Trees = LastAdded(Len(vloop.forest.Trees))
    /\ (vloop.MaxTrees > 0 =>
            /\ Len(vloop.forest.Trees) <= vloop.MaxTrees
            /\ (IterationDone =>
                    Len(vloop.forest.Trees)
                        = IF Len(vloop.hist) < vloop.MaxTrees
                          THEN Len(vloop.hist) ELSE vloop.MaxTrees))
    /\ (vloop.MaxTrees <= 0 =>
            /\ vloop.removed = 0
            /\ vloop.forest.Trees = vloop.hist)

\* a forest that started full has dropped its two oldest trees
C29_Witness ==
    /\ vloop.pc = "done"
    /\ vloop.MaxTrees = 2
    /\ vloop.removed = 2
    /\ Len(vloop.hist) = 4
    /\ vloop.hist[1] # vloop.hist[2]
    /\ vloop.forest.Trees = <<vloop.hist[3], vloop.hist[4]>>

\* without a limit the forest has grown past every MaxTrees > 0 of the model
C29_WitnessNoLimit ==
    /\ vloop.pc = "done"
    /\ vloop.MaxTrees <= 0
    /\ Len(vloop.forest.Trees) > MaxTrees

\* ------------------------------------------------------------------- C27
Mutating == drv.mutating # "none"

Writing == drv.writing # "none"

C27_WitnessMainWaits ==
    /\ drv.mpc = "lock"
    /\ Writing
    /\ drv.writing = "CriticFile"

\* main has returned while the training goroutine waits at its Lock
C27_WitnessTrainerWaits ==
    /\ drv.exited
    /\ drv.tpc = "lock"
    /\ drv.batchIdx = 1

\* ------------------------------------------------------------------- C30
RECURSIVE CollectedSteps(_)
CollectedSteps(res) ==
    IF res = <<>> THEN 0 ELSE Head(res) + CollectedSteps(Tail(res))

Returned == gr.mpc = "returned"

\* every goroutine of the call has returned and resChan and errChan are
\* closed
AllExited ==
    /\ \A w \in 1..gr.n : gr.wpc[w] = "done"
    /\ gr.cpc = "done"
    /\ gr.resClosed
    /\ gr.errClosed

\* a request is put on the requests channel
Requests == gr'.requests > gr.requests

\* C30: a call of GatherRollouts with at least one environment and
\* steps >= 1 returns in the end under every interleaving: every worker
\* exits and resChan and errChan are closed, for good. When no rollout
\* has failed the returned error is nil and the collected rollouts hold at
\* least steps steps; a request is only sent while the steps counted,
\* the new item included, are fewer than steps; when a rollout has failed the
\* first error reported is the one returned. No channel is sent on or
\* closed after its close.
C30_GatherReturns ==
    /\ <>[](Returned /\ AllExited)
    /\ [](Returned /\ gr.failures = <<>> =>
             gr.err = 0 /\ CollectedSteps(gr.res) >= gr.steps)
    /\ [](Returned /\ gr.failures # <<>> => gr.err = gr.failures[1])
    /\ [][Requests => /\ gr.totalSteps < gr.steps
                      /\ gr'.totalSteps < gr.steps
                      /\ CollectedSteps(gr'.res) = gr'.totalSteps]_vars
    /\ [](~gr.panicked)
    /\ [](gr.totalSteps <= CollectedSteps(gr.res))

\* two workers: the call has returned without an error, with more steps
\* than asked for, one rollout having arrived after the close of requests
C30_Witness ==
    /\ Returned
    /\ AllExited
    /\ gr.n = 2
    /\ gr.failures = <<>>
    /\ gr.err = 0
    /\ gr.totalSteps >= gr.steps
    /\ CollectedSteps(gr.res) > gr.totalSteps

\* two workers have failed, the second after a rollout of the first was
\* collected: the call has returned the error of the first
C30_WitnessError ==
    /\ Returned
    /\ AllExited
    /\ Len(gr.failures) = 2
    /\ gr.err = gr.failures[1]
    /\ gr.res # <<>>
    /\ gr.totalSteps < gr.steps
====
